---- MODULE Spec2Model ----
(***************************************************************************)
(* A model of the OpenSea V2 client (src/src/client.rs) and of the wire    *)
(* types it encodes and decodes (src/src/types/api.rs and                  *)
(* src/src/types/api/orders.rs).                                           *)
(*                                                                         *)
(* The client is a value shared by a number of callers.  Every operation   *)
(* is an async function: it suspends on `.send().await` and on             *)
(* `.json::<T>().await`; dropping the future at one of these two points    *)
(* abandons the call.  The server and the transport are the environment:   *)
(* they choose whether the send fails, the status, whether the body read   *)
(* fails and the body.                                                     *)
(***************************************************************************)
EXTENDS Integers, Sequences, FiniteSets, TLC

VARIABLES
    client,   \* the OpenSeaV2Client value: default headers, chain, url
    pc,       \* pc[c]: where caller c's current call stands
    op,       \* op[c]: the operation caller c invoked last
    req,      \* req[c]: the HTTP request that call built
    sent,     \* sent[c]: HTTP requests issued by caller c's current call
    resp,     \* resp[c]: what the transport delivered to that call so far
    result,   \* result[c]: the Result the call returned to its caller
    codec     \* the scalar codecs at work: the functions applied, their values

vars == <<client, pc, op, req, sent, resp, result, codec>>

-----------------------------------------------------------------------------
(* Bounds of the model.                                                    *)

\* Callers that hold the client concurrently in SpecShared.
NumCallers == 2

Callers == 1..NumCallers

-----------------------------------------------------------------------------
(* Option<T>                                                               *)

None == [some |-> FALSE, v |-> ""]
Some(x) == [some |-> TRUE, v |-> x]

-----------------------------------------------------------------------------
(* src/src/constants.rs                                                    *)

PROTOCOL_VERSION == "v2"
API_BASE_MAINNET == "https://api.opensea.io"
API_BASE_TESTNET == "https://testnets-api.opensea.io"

-----------------------------------------------------------------------------
(* Chain.  The enumeration itself (types/mod.rs) is not among the sources; *)
(* its members, the test subset and the default are those of spec 4.1.     *)

TestChains ==
    {"Goerli", "Sepolia", "Mumbai", "Boabab", "BaseGoerli", "BSCTestnet",
     "ArbitrumGoerli", "AvalancheFuji", "OptimismGoerli", "SolanaDevnet",
     "ZoraTestnet"}

MainChains == {"Ethereum", "Matic"}

Chains == MainChains \cup TestChains

is_test_chain(chain) == chain \in TestChains

DefaultChain == "Ethereum"

\* The name a chain is emitted under (Display / Serialize).
ChainName(chain) ==
    CASE chain = "Ethereum"       -> "ethereum"
      [] chain = "Matic"          -> "matic"
      [] chain = "Goerli"         -> "goerli"
      [] chain = "Sepolia"        -> "sepolia"
      [] chain = "Mumbai"         -> "mumbai"
      [] chain = "Boabab"         -> "boabab"
      [] chain = "BaseGoerli"     -> "base_goerli"
      [] chain = "BSCTestnet"     -> "bsctestnet"
      [] chain = "ArbitrumGoerli" -> "arbitrum_goerli"
      [] chain = "AvalancheFuji"  -> "avalanche_fuji"
      [] chain = "OptimismGoerli" -> "optimism_goerli"
      [] chain = "SolanaDevnet"   -> "solana_devnet"
      [] chain = "ZoraTestnet"    -> "zora_testnet"

-----------------------------------------------------------------------------
(* OpenSeaApiConfig and OpenSeaV2Client::new                               *)

ApiKeys == {"secret-key"}

OpenSeaApiConfig == [api_key : {None} \cup {Some(k) : k \in ApiKeys}, chain : Chains]

\* #[derive(Default)]: no key, Chain::default().
DefaultConfig == [api_key |-> None, chain |-> DefaultChain]

\* client.rs:46: the base is chosen the wrong way round.
BaseUrlSwapped(chain) ==
    IF is_test_chain(chain) THEN API_BASE_MAINNET ELSE API_BASE_TESTNET

\* client.rs:46
BaseUrl(chain) ==
    IF is_test_chain(chain) THEN API_BASE_TESTNET ELSE API_BASE_MAINNET

\* client.rs:35-51
New(cfg) ==
    LET headers  == IF cfg.api_key.some
                    THEN {<<"X-API-KEY", cfg.api_key.v>>}
                    ELSE {}
        base_url == BaseUrl(cfg.chain) \o "/" \o PROTOCOL_VERSION
    IN  [client |-> [default_headers |-> headers],
         chain  |-> cfg.chain,
         url    |-> [base |-> base_url]]

-----------------------------------------------------------------------------
(* ApiUrl                                                                  *)

\* ApiUrl::get_offers (types.rs:236-238) in the place of get_listings.
ApiUrl_get_offers(url, chain) ==
    url.base \o "/orders/" \o ChainName(chain) \o "/seaport/offers"

ApiUrl_get_listings(url, chain) ==
    url.base \o "/orders/" \o ChainName(chain) \o "/seaport/listings"

ApiUrl_fulfill_listing(url) == url.base \o "/listings/fulfillment_data"

ApiUrl_get_collection(url, slug) == url.base \o "/collections/" \o slug

ApiUrl_get_all_listings(url, slug, query) ==
    url.base \o "/listings/collection/" \o slug \o "/all?" \o query

-----------------------------------------------------------------------------
(* Scalars on the wire                                                     *)

DecDigits == <<"0", "1", "2", "3", "4", "5", "6", "7", "8", "9">>

HexDigits == <<"0", "1", "2", "3", "4", "5", "6", "7", "8", "9",
               "a", "b", "c", "d", "e", "f">>

\* Integer to_string: decimal digits, most significant first, "-" if negative.
RECURSIVE DecNat(_)
DecNat(n) ==
    IF n < 10 THEN DecDigits[n + 1]
              ELSE DecNat(n \div 10) \o DecDigits[(n % 10) + 1]

DecStr(n) == IF n < 0 THEN "-" \o DecNat(0 - n) ELSE DecNat(n)

\* alloy's Serialize for Address and B256: "0x" and two lowercase hex digits
\* per byte.
RECURSIVE HexBytes(_)
HexBytes(bytes) ==
    IF bytes = <<>> THEN ""
    ELSE HexDigits[(Head(bytes) \div 16) + 1] \o HexDigits[(Head(bytes) % 16) + 1]
         \o HexBytes(Tail(bytes))

HexStr(bytes) == "0x" \o HexBytes(bytes)

-----------------------------------------------------------------------------
(* serde_json::Value, as far as requests and envelopes need it             *)

JStr(s)  == [k |-> "str", s |-> s, a |-> <<>>]
JNum(n)  == [k |-> "num", s |-> DecStr(n), a |-> <<>>]
JBool(b) == [k |-> "bool", s |-> IF b THEN "true" ELSE "false", a |-> <<>>]
JNull    == [k |-> "null", s |-> "", a |-> <<>>]
\* An array of scalars; its elements are values whose own a is empty.
JArr(a)  == [k |-> "arr", s |-> "", a |-> a]
\* A key that is not there.
JAbsent  == [k |-> "absent", s |-> "", a |-> <<>>]

-----------------------------------------------------------------------------
(* OpenSeaApiError and Result<T, OpenSeaApiError>                          *)

\* The future has not returned.
Pending == [tag |-> "Pending", code |-> "", errors |-> <<>>, value |-> {}]

\* Ok(res): value is the set of fields of the response that were populated.
Ok(value) == [tag |-> "Ok", code |-> "", errors |-> <<>>, value |-> value]

\* Err(OpenSeaApiError::Reqwest(e)); kind is e's kind: "request", "body" or
\* "decode".
ErrReqwest(kind) == [tag |-> "Reqwest", code |-> kind, errors |-> <<>>, value |-> {}]

\* Err(OpenSeaApiError::OpenSeaDetailedError(code))
ErrDetailed(code) ==
    [tag |-> "OpenSeaDetailedError", code |-> code, errors |-> <<>>, value |-> {}]

\* Err(OpenSeaApiError::OpenSeaError(res))
ErrOpenSea(res) ==
    [tag |-> "OpenSeaError", code |-> "", errors |-> res.errors, value |-> {}]

\* Err(OpenSeaApiError::Other(msg))
ErrOther(msg) == [tag |-> "Other", code |-> msg, errors |-> <<>>, value |-> {}]

-----------------------------------------------------------------------------
(* RetrieveListingsRequest and its query string (types/api.rs:34-105)      *)

NoAddress == [some |-> FALSE, v |-> <<>>]
NoNumber  == [some |-> FALSE, v |-> 0]

\* 0xBC4CA0EdA7647A8aB7C2061c2E118A18a936f13D (types/api.rs:596)
BaycAddress ==
    <<188, 76, 160, 237, 167, 100, 122, 138, 183, 194,
      6, 28, 46, 17, 138, 24, 169, 54, 241, 61>>

\* RetrieveListingsRequest::default()
DefaultRetrieveListingsRequest ==
    [asset_contract_address |-> NoAddress,
     limit                  |-> NoNumber,
     token_ids              |-> <<>>,
     maker                  |-> NoAddress,
     taker                  |-> NoAddress,
     order_by               |-> None,
     order_direction        |-> None,
     listed_after           |-> NoNumber,
     listed_before          |-> NoNumber]

\* value_to_string (types/api.rs:72-79)
value_to_string(v) ==
    IF v.k \in {"num", "bool", "str"}
    THEN [ok |-> TRUE,  s |-> v.s, err |-> Pending]
    ELSE [ok |-> FALSE, s |-> "",  err |-> ErrOther("Wrong value type")]

\* #[skip_serializing_none]: a None field is left out of the object.
Field(key, opt, value) == IF opt.some THEN <<<<key, value>>>> ELSE <<>>

\* OrderOpeningOption is rename_all = "snake_case", OrderDirection "lowercase".
OrderOpeningOptionName(o) ==
    CASE o = "CreatedDate" -> "created_date"
      [] o = "EthPrice"    -> "eth_price"

OrderDirectionName(d) ==
    CASE d = "Asc"  -> "asc"
      [] d = "Desc" -> "desc"

\* to_map without #[skip_serializing_none]: a None field is there as null.
to_map_with_nulls(r) ==
    LET FieldOrNull(key, opt, value) == <<<<key, IF opt.some THEN value ELSE JNull>>>>
    IN     FieldOrNull("asset_contract_address", r.asset_contract_address,
                       JStr(HexStr(r.asset_contract_address.v)))
        \o FieldOrNull("limit", r.limit, JNum(r.limit.v))
        \o <<<<"token_ids", JArr([i \in 1..Len(r.token_ids) |-> JStr(r.token_ids[i])])>>>>
        \o FieldOrNull("maker", r.maker, JStr(HexStr(r.maker.v)))
        \o FieldOrNull("taker", r.taker, JStr(HexStr(r.taker.v)))
        \o FieldOrNull("order_by", r.order_by,
                       JStr(IF r.order_by.some
                            THEN OrderOpeningOptionName(r.order_by.v) ELSE ""))
        \o FieldOrNull("order_direction", r.order_direction,
                       JStr(IF r.order_direction.some
                            THEN OrderDirectionName(r.order_direction.v) ELSE ""))
        \o FieldOrNull("listed_after", r.listed_after, JNum(r.listed_after.v))
        \o FieldOrNull("listed_before", r.listed_before, JNum(r.listed_before.v))

\* to_map over a map that keeps its keys sorted.
to_map_sorted(r) ==
       Field("asset_contract_address", r.asset_contract_address,
             JStr(HexStr(r.asset_contract_address.v)))
    \o Field("limit", r.limit, JNum(r.limit.v))
    \o Field("listed_after", r.listed_after, JNum(r.listed_after.v))
    \o Field("listed_before", r.listed_before, JNum(r.listed_before.v))
    \o Field("maker", r.maker, JStr(HexStr(r.maker.v)))
    \o Field("order_by", r.order_by,
             JStr(IF r.order_by.some THEN OrderOpeningOptionName(r.order_by.v) ELSE ""))
    \o Field("order_direction", r.order_direction,
             JStr(IF r.order_direction.some
                  THEN OrderDirectionName(r.order_direction.v) ELSE ""))
    \o Field("taker", r.taker, JStr(HexStr(r.taker.v)))
    \o <<<<"token_ids", JArr([i \in 1..Len(r.token_ids) |-> JStr(r.token_ids[i])])>>>>

\* RetrieveListingsRequest::to_map: the fields in declaration order.
to_map(r) ==
       Field("asset_contract_address", r.asset_contract_address,
             JStr(HexStr(r.asset_contract_address.v)))
    \o Field("limit", r.limit, JNum(r.limit.v))
    \o <<<<"token_ids", JArr([i \in 1..Len(r.token_ids) |-> JStr(r.token_ids[i])])>>>>
    \o Field("maker", r.maker, JStr(HexStr(r.maker.v)))
    \o Field("taker", r.taker, JStr(HexStr(r.taker.v)))
    \o Field("order_by", r.order_by,
             JStr(IF r.order_by.some THEN OrderOpeningOptionName(r.order_by.v) ELSE ""))
    \o Field("order_direction", r.order_direction,
             JStr(IF r.order_direction.some
                  THEN OrderDirectionName(r.order_direction.v) ELSE ""))
    \o Field("listed_after", r.listed_after, JNum(r.listed_after.v))
    \o Field("listed_before", r.listed_before, JNum(r.listed_before.v))

\* The pairs one entry of the map contributes (types/api.rs:94-101).
QsOfEntry(k, v) ==
    IF v.k = "arr"
    THEN [i \in 1..Len(v.a) |-> <<k, value_to_string(v.a[i])>>]
    ELSE <<<<k, value_to_string(v)>>>>

RECURSIVE QsPairs(_)
QsPairs(map) ==
    IF map = <<>> THEN <<>>
    ELSE QsOfEntry(Head(map)[1], Head(map)[2]) \o QsPairs(Tail(map))

\* RetrieveListingsRequest::to_qs_vec (types/api.rs:90-104): `?` returns the
\* first error met.
to_qs_vec(r) ==
    LET pairs == QsPairs(to_map(r))
        bad   == {i \in 1..Len(pairs) : ~pairs[i][2].ok}
    IN  IF bad = {}
        THEN [ok |-> TRUE,  vec |-> [i \in 1..Len(pairs) |-> <<pairs[i][1], pairs[i][2].s>>],
              err |-> Pending]
        ELSE [ok |-> FALSE, vec |-> <<>>,
              err |-> pairs[CHOOSE i \in bad : \A j \in bad : i <= j][2].err]

\* The requests callers pass to retrieve_listings.
RetrieveListingsRequests ==
    {DefaultRetrieveListingsRequest,
     \* tests/retrieve_listings_test.rs:50-54
     [DefaultRetrieveListingsRequest EXCEPT
        !.limit = [some |-> TRUE, v |-> 3],
        !.order_by = Some("CreatedDate")],
     \* types/api.rs:595-600
     [DefaultRetrieveListingsRequest EXCEPT
        !.asset_contract_address = [some |-> TRUE, v |-> BaycAddress],
        !.token_ids = <<"1", "2", "3">>,
        !.listed_after = [some |-> TRUE, v |-> 1691681235]]}

-----------------------------------------------------------------------------
(* GetAllListingsRequest (types/api.rs:64-70)                              *)

\* GetAllListingsRequest::default()
DefaultGetAllListingsRequest == [limit |-> NoNumber, next |-> None]

GetAllListingsRequests ==
    {DefaultGetAllListingsRequest,
     [limit |-> [some |-> TRUE, v |-> 50], next |-> Some("LXBrPTExNTE5Njk3NjYw")]}

\* serde_url_params::to_string(&params): key=value joined by "&", None left out.
UrlParams(p) ==
    LET l == IF p.limit.some THEN "limit=" \o DecStr(p.limit.v) ELSE ""
        n == IF p.next.some THEN "next=" \o p.next.v ELSE ""
    IN  IF p.limit.some /\ p.next.some THEN l \o "&" \o n ELSE l \o n

CollectionSlugs == {"sheboshis"}

-----------------------------------------------------------------------------
(* FulfillListingRequest (types/api.rs:130-166, 232-241)                   *)

SEAPORT_V1 == "0x00000000006c3852cbEf3e08E8dF289169EdE581"
SEAPORT_V4 == "0x00000000000001ad428e4906aE43D8F9852d0dD6"
SEAPORT_V5 == "0x00000000000000ADc04C56Bf30aC9d3c0aAF14dC"
\* Not in src/src/constants.rs; the address is that of spec 4.3.
SEAPORT_V6 == "0x0000000000000068f116a894984e2db1123eb395"

\* The arm of V1_6 copied from that of V1_5.
protocol_version_to_str_copied(protocol_version) ==
    CASE protocol_version = "V1_1" -> SEAPORT_V1
      [] protocol_version = "V1_4" -> SEAPORT_V4
      [] protocol_version = "V1_5" -> SEAPORT_V5
      [] protocol_version = "V1_6" -> SEAPORT_V5

protocol_version_to_str(protocol_version) ==
    CASE protocol_version = "V1_1" -> SEAPORT_V1
      [] protocol_version = "V1_4" -> SEAPORT_V4
      [] protocol_version = "V1_5" -> SEAPORT_V5
      [] protocol_version = "V1_6" -> SEAPORT_V6

\* B256::default()
ZeroHash == [i \in 1..32 |-> 0]

\* Serialize for FulfillListingRequest without the rename of the field.
FulfillListingRequestJsonNoRename(r) ==
    [listing   |-> [hash             |-> HexStr(r.listing.hash),
                    chain            |-> ChainName(r.listing.chain),
                    protocol_version |-> protocol_version_to_str(r.listing.protocol_version)],
     fulfiller |-> [address |-> HexStr(r.fulfiller.address)]]

\* Serialize for FulfillListingRequest: the JSON object of the body.
FulfillListingRequestJson(r) ==
    [listing   |-> [hash             |-> HexStr(r.listing.hash),
                    chain            |-> ChainName(r.listing.chain),
                    protocol_address |-> protocol_version_to_str(r.listing.protocol_version)],
     fulfiller |-> [address |-> HexStr(r.fulfiller.address)]]

\* types/api.rs:615-618
FulfillListingRequests ==
    {[listing   |-> [hash |-> ZeroHash, chain |-> "Ethereum", protocol_version |-> "V1_5"],
      fulfiller |-> [address |-> BaycAddress]]}

-----------------------------------------------------------------------------
(* Response bodies                                                         *)
(*                                                                         *)
(* A body is text.  json says whether it is a JSON object; errors is the   *)
(* value under its key "errors"; keys are its other keys whose values have *)
(* the shape the response type that declares the key expects.              *)

Body(json, errors, keys) == [json |-> json, errors |-> errors, keys |-> keys]

NoBody == Body(FALSE, JAbsent, {})

\* {"errors": [m1, m2, ...]}
EnvelopeBody(msgs) ==
    Body(TRUE, JArr([i \in 1..Len(msgs) |-> JStr(msgs[i])]), {})

\* The two messages fulfill_listing recognises (client.rs:80, 83).
MSG_ORDER_HASH == "The order_hash you provided does not exist"
MSG_CANNOT_FULFILL == "This order can not be fulfilled at this time."

\* Serde's derive: a field of type Option<T> may be missing, any other field
\* must be there; unknown keys are ignored.
Required(type) ==
    CASE type = "FulfillListingResponse"   -> {"protocol", "fulfillment_data"}
      [] type = "RetrieveListingsResponse" -> {"orders"}
      [] type = "GetAllListingsResponse"   -> {"listings"}
      [] type = "CollectionResponse"       ->
            {"collection", "name", "owner", "safelist_status", "category",
             "is_disabled", "is_nsfw", "trait_offers_enabled",
             "collection_offers_enabled", "opensea_url", "contracts", "editors",
             "fees", "created_date"}

Optional(type) ==
    CASE type = "FulfillListingResponse"   -> {}
      [] type = "RetrieveListingsResponse" -> {"next", "previous"}
      [] type = "GetAllListingsResponse"   -> {"next"}
      [] type = "CollectionResponse"       ->
            {"description", "image_url", "banner_image_url", "project_url",
             "wiki_url", "discord_url", "telegram_url", "twitter_username",
             "instagram_username", "required_zone", "rarity", "payment_tokens",
             "total_supply"}

ResponseTypes ==
    {"FulfillListingResponse", "RetrieveListingsResponse",
     "GetAllListingsResponse", "CollectionResponse"}

\* The type each operation decodes a response into (client.rs:53, 64, 92,
\* 100, 115).
ResponseType(o) ==
    CASE o = "fulfill_listing"        -> "FulfillListingResponse"
      [] o = "retrieve_listings"      -> "RetrieveListingsResponse"
      [] o = "get_all_listings"       -> "GetAllListingsResponse"
      [] o = "get_collection"         -> "CollectionResponse"
      [] o = "get_collection_by_slug" -> "CollectionResponse"

Operations ==
    {"fulfill_listing", "retrieve_listings", "get_all_listings", "get_collection",
     "get_collection_by_slug"}

-----------------------------------------------------------------------------
(* Decoders                                                                *)

\* Vec<String>::deserialize: an array all of whose elements are strings.
VecString(v) ==
    IF v.k = "arr" /\ \A i \in 1..Len(v.a) : v.a[i].k = "str"
    THEN [ok |-> TRUE,  vec |-> [i \in 1..Len(v.a) |-> v.a[i].s]]
    ELSE [ok |-> FALSE, vec |-> <<>>]

\* serde_json::from_slice::<OpenSeaErrorResponse> (types/api.rs:342-345)
DecodeEnvelope(body) ==
    LET errors == VecString(body.errors)
    IN  IF body.json /\ errors.ok
        THEN [ok |-> TRUE,  errors |-> errors.vec]
        ELSE [ok |-> FALSE, errors |-> <<>>]

\* A decoder that keeps whatever fields it found.
DecodeLenient(type, body) ==
    [ok |-> body.json, value |-> body.keys \cap (Required(type) \cup Optional(type))]

\* serde_json::from_slice::<T> for the four response types.
Decode(type, body) ==
    IF body.json /\ Required(type) \subseteq body.keys
    THEN [ok |-> TRUE,  value |-> body.keys \cap (Required(type) \cup Optional(type))]
    ELSE [ok |-> FALSE, value |-> {}]

\* Response::json::<T>().await? for a response type: the body is read, then
\* decoded; either step's failure is a reqwest::Error.
Json(type, read_ok, body) ==
    IF ~read_ok THEN ErrReqwest("body")
    ELSE LET res == Decode(type, body)
         IN  IF res.ok THEN Ok(res.value) ELSE ErrReqwest("decode")

\* client.rs:77 with a scan for the first recognised message instead.
first_known(errors) ==
    LET known == {i \in 1..Len(errors) :
                    errors[i] \in {MSG_ORDER_HASH, MSG_CANNOT_FULFILL}}
    IN  IF known = {} THEN None
        ELSE Some(errors[CHOOSE i \in known : \A j \in known : i <= j])

\* res.errors.first() (client.rs:77)
first(errors) == IF errors = <<>> THEN None ELSE Some(Head(errors))

\* The match with its two arms exchanged.
DetailedErrorCodeSwapped(first_error) ==
    CASE first_error = MSG_ORDER_HASH     -> "OrderCannotBeFulfilled"
      [] first_error = MSG_CANNOT_FULFILL -> "OrderHashDoesNotExist"
      [] OTHER                            -> ""

\* The match on first_error.as_str() (client.rs:79-87); "" is the `&_` arm.
DetailedErrorCode(first_error) ==
    CASE first_error = MSG_ORDER_HASH     -> "OrderHashDoesNotExist"
      [] first_error = MSG_CANNOT_FULFILL -> "OrderCannotBeFulfilled"
      [] OTHER                            -> ""

\* fulfill_listing on a 400 that falls back to the success response where
\* the body is no envelope.
FulfillListing400Fallback(read_ok, body) ==
    LET res == DecodeEnvelope(body)
        first_error == first(res.errors)
        code == IF first_error.some THEN DetailedErrorCode(first_error.v) ELSE ""
    IN  IF ~read_ok THEN ErrReqwest("body")
        ELSE IF ~res.ok THEN Json("FulfillListingResponse", read_ok, body)
        ELSE IF code # "" THEN ErrDetailed(code)
        ELSE ErrOpenSea(res)

\* fulfill_listing on a 400 (client.rs:76-89)
FulfillListing400(read_ok, body) ==
    LET res == DecodeEnvelope(body)
        first_error == first(res.errors)
        code == IF first_error.some THEN DetailedErrorCode(first_error.v) ELSE ""
    IN  IF ~read_ok THEN ErrReqwest("body")
        ELSE IF ~res.ok THEN ErrReqwest("decode")
        ELSE IF code # "" THEN ErrDetailed(code)
        ELSE ErrOpenSea(res)

\* fulfill_listing once send() returned Ok(res) (client.rs:74-94)
FulfillListingResponded(status, read_ok, body) ==
    IF status = 400 THEN FulfillListing400(read_ok, body)
    ELSE Json("FulfillListingResponse", read_ok, body)

\* What an operation returns once send() returned Ok(res): the status is
\* looked at by fulfill_listing alone.
Responded(o, status, read_ok, body) ==
    IF o = "fulfill_listing" THEN FulfillListingResponded(status, read_ok, body)
    ELSE Json(ResponseType(o), read_ok, body)

-----------------------------------------------------------------------------
(* Text and 256-bit integers                                               *)
(*                                                                         *)
(* Where a codec reads or writes text character by character, the text is  *)
(* the sequence of its characters.                                         *)

LowerLetters ==
    <<"a", "b", "c", "d", "e", "f", "g", "h", "i", "j", "k", "l", "m",
      "n", "o", "p", "q", "r", "s", "t", "u", "v", "w", "x", "y", "z">>

UpperLetters ==
    <<"A", "B", "C", "D", "E", "F", "G", "H", "I", "J", "K", "L", "M",
      "N", "O", "P", "Q", "R", "S", "T", "U", "V", "W", "X", "Y", "Z">>

InSeq(seq, x) == \E i \in 1..Len(seq) : seq[i] = x

IndexOf(seq, x) == CHOOSE i \in 1..Len(seq) : seq[i] = x

Reverse(seq) == [i \in 1..Len(seq) |-> seq[Len(seq) + 1 - i]]

\* The widths of U256, u128 and u64.
U256_BITS == 256
U128_BITS == 128
U64_BITS == 64

\* An unsigned integer of a fixed width is its limbs of LIMB_BITS bits, the
\* least significant first.
LIMB_BITS == 16
LimbBase == 2 ^ LIMB_BITS
U256_LIMBS == U256_BITS \div LIMB_BITS
U128_LIMBS == U128_BITS \div LIMB_BITS
U64_LIMBS == U64_BITS \div LIMB_BITS

Zero(limbs) == [i \in 1..limbs |-> 0]

IsZero(v) == \A i \in 1..Len(v) : v[i] = 0

\* v * radix + carry over the width of v; carry is what falls off the top.
RECURSIVE MulAdd(_, _, _)
MulAdd(v, radix, carry) ==
    IF v = <<>> THEN [v |-> <<>>, carry |-> carry]
    ELSE LET t    == Head(v) * radix + carry
             rest == MulAdd(Tail(v), radix, t \div LimbBase)
         IN  [v |-> <<t % LimbBase>> \o rest.v, carry |-> rest.carry]

\* Digits of a radix a few at a time, so that the evaluation stays shallow:
\* as many as keep radix^n within a limb's product.
ChunkLen(radix) == IF radix = 16 THEN 3 ELSE 4

\* The value of a short run of digits.
RECURSIVE Horner(_, _, _)
Horner(radix, digits, acc) ==
    IF digits = <<>> THEN acc
    ELSE Horner(radix, Tail(digits), acc * radix + Head(digits))

\* Uint::from_base_be: the digits, most significant first, accumulated into
\* acc; a digit that is no digit of the radix and a value that does not fit
\* are errors.  The accumulation takes ChunkLen digits per step.
RECURSIVE from_base_be(_, _, _)
from_base_be(radix, digits, acc) ==
    IF digits = <<>> THEN [ok |-> TRUE, v |-> acc, err |-> ""]
    ELSE IF \E i \in 1..Len(digits) : digits[i] >= radix
    THEN [ok |-> FALSE, v |-> Zero(Len(acc)), err |-> "InvalidDigit"]
    ELSE LET n == IF Len(digits) % ChunkLen(radix) = 0 THEN ChunkLen(radix)
                  ELSE Len(digits) % ChunkLen(radix)
             r == MulAdd(acc, radix ^ n, Horner(radix, SubSeq(digits, 1, n), 0))
         IN  IF r.carry # 0
             THEN [ok |-> FALSE, v |-> Zero(Len(acc)), err |-> "Overflow"]
             ELSE from_base_be(radix, SubSeq(digits, n + 1, Len(digits)), r.v)

\* The digit a character stands for in a radix up to 36: 0-9, then a-z and
\* A-Z alike; -1 for any other character.
DigitValue(c) ==
    IF InSeq(DecDigits, c) THEN IndexOf(DecDigits, c) - 1
    ELSE IF InSeq(LowerLetters, c) THEN IndexOf(LowerLetters, c) + 9
    ELSE IF InSeq(UpperLetters, c) THEN IndexOf(UpperLetters, c) + 9
    ELSE 0 - 1

\* Uint::from_str_radix: "_" is skipped, any other character that is no
\* digit or letter is an error.
from_str_radix(src, radix, limbs) ==
    LET kept   == SelectSeq(src, LAMBDA c : c # "_")
        digits == [i \in 1..Len(kept) |-> DigitValue(kept[i])]
    IN  IF \E i \in 1..Len(digits) : digits[i] < 0
        THEN [ok |-> FALSE, v |-> Zero(limbs), err |-> "InvalidDigit"]
        ELSE from_base_be(radix, digits, Zero(limbs))

\* U256::from_str (types/api.rs:258, 276): a prefix 0x, 0o or 0b selects
\* the radix, decimal otherwise.
U256_from_str(src) ==
    LET prefix == IF Len(src) >= 2 THEN SubSeq(src, 1, 2) ELSE <<>>
        rest   == SubSeq(src, 3, Len(src))
    IN  CASE prefix \in {<<"0", "x">>, <<"0", "X">>} -> from_str_radix(rest, 16, U256_LIMBS)
          [] prefix \in {<<"0", "o">>, <<"0", "O">>} -> from_str_radix(rest, 8, U256_LIMBS)
          [] prefix \in {<<"0", "b">>, <<"0", "B">>} -> from_str_radix(rest, 2, U256_LIMBS)
          [] OTHER -> from_str_radix(src, 10, U256_LIMBS)

\* Division by d, from the most significant limb down.
RECURSIVE DivRem(_, _, _)
DivRem(be, d, rem) ==
    IF be = <<>> THEN [q |-> <<>>, r |-> rem]
    ELSE LET cur  == rem * LimbBase + Head(be)
             rest == DivRem(Tail(be), d, cur % d)
         IN  [q |-> <<cur \div d>> \o rest.q, r |-> rest.r]

RECURSIVE StripZeros(_)
StripZeros(digits) ==
    IF Len(digits) > 1 /\ Head(digits) = "0" THEN StripZeros(Tail(digits))
    ELSE digits

\* The four decimal digits of n < 10000.
Digits4(n) ==
    <<DecDigits[(n \div 1000) + 1], DecDigits[((n \div 100) % 10) + 1],
      DecDigits[((n \div 10) % 10) + 1], DecDigits[(n % 10) + 1]>>

\* The decimal digits of a value that is not zero, four per division.
RECURSIVE DecimalDigits(_)
DecimalDigits(be) ==
    LET d == DivRem(be, 10000, 0)
    IN  IF IsZero(d.q) THEN StripZeros(Digits4(d.r))
        ELSE DecimalDigits(d.q) \o Digits4(d.r)

\* Display for U256, u128 and u64: the decimal digits, "0" for zero.
to_string(v) == IF IsZero(v) THEN <<"0">> ELSE DecimalDigits(Reverse(v))

\* BigInt::from_str(s).unwrap().to_str_radix(10) on a string of decimal
\* digits: the digits without leading zeros.
BigIntDecimal(digits) == StripZeros(digits)

\* value <= U256::from(u128::MAX)
FitsU128(value) == \A i \in (U128_LIMBS + 1)..U256_LIMBS : value[i] = 0

\* value.to::<u128>(), for a value that fits
ToU128(value) == SubSeq(value, 1, U128_LIMBS)

-----------------------------------------------------------------------------
(* The scalar codecs (types/api.rs:252-290, types/api/orders.rs:163-221)   *)
(*                                                                         *)
(* A value a codec takes or gives: k is its kind, t its text or its        *)
(* payload, n its limbs.                                                   *)

Val(k, t, n) == [k |-> k, t |-> t, n |-> n]

\* The JSON scalars as serde_json reads them: a number keeps its literal.
JsonString(chars) == Val("string", chars, <<>>)
JsonNumber(chars) == Val("number", chars, <<>>)

U256(limbs) == Val("U256", <<>>, limbs)

CounterNumber(limbs) == Val("Counter::Number", <<>>, limbs)
CounterText(chars)   == Val("Counter::Text", chars, <<>>)

\* Err(e) of a serializer or a deserializer; msg is e's message.
CodecErr(msg) == Val("Err", <<msg>>, <<>>)

\* u256_from_dec_str (types/api.rs:252-259): String::deserialize takes a
\* JSON string and nothing else.
u256_from_dec_str(json) ==
    IF json.k # "string" THEN CodecErr("invalid type")
    ELSE LET res == U256_from_str(json.t)
         IN  IF res.ok THEN U256(res.v) ELSE CodecErr(res.err)

\* u256_to_dec_str that goes through u128.
u256_to_dec_str_u128(value) == JsonString(BigIntDecimal(to_string(ToU128(value.n))))

\* u256_to_dec_str (types/api.rs:262-268)
u256_to_dec_str(value) == JsonString(BigIntDecimal(to_string(value.n)))

\* u256_from_dec that takes a string as well as a number.
u256_from_dec_any(json) ==
    IF json.k \notin {"number", "string"} THEN CodecErr("invalid type")
    ELSE LET res == U256_from_str(json.t)
         IN  IF res.ok THEN U256(res.v) ELSE CodecErr(res.err)

\* u256_from_dec (types/api.rs:271-277): Number::deserialize takes a JSON
\* number and nothing else; val.as_str() is its literal.
u256_from_dec(json) ==
    IF json.k # "number" THEN CodecErr("invalid type")
    ELSE LET res == U256_from_str(json.t)
         IN  IF res.ok THEN U256(res.v) ELSE CodecErr(res.err)

\* u256_to_dec without the test of the width.
u256_to_dec_unchecked(value) == JsonNumber(to_string(ToU128(value.n)))

\* u256_to_dec (types/api.rs:280-290)
u256_to_dec(value) ==
    IF FitsU128(value.n) THEN JsonNumber(to_string(ToU128(value.n)))
    ELSE CodecErr("U256 value is too large for u128")

\* Deserialize for Counter (types/api/orders.rs:170-208): deserialize_any
\* calls visit_u64 for a number that is an unsigned integer literal fitting
\* u64 and visit_str for a string; the visitor has no other method.
Counter_deserialize(json) ==
    CASE json.k = "string" -> CounterText(json.t)
      [] json.k = "number" ->
           IF \A i \in 1..Len(json.t) : InSeq(DecDigits, json.t[i])
           THEN LET res == from_base_be(10, [i \in 1..Len(json.t) |-> DigitValue(json.t[i])],
                                        Zero(U64_LIMBS))
                IN  IF res.ok THEN CounterNumber(res.v) ELSE CodecErr("invalid type")
           ELSE CodecErr("invalid type")
      [] OTHER -> CodecErr("invalid type")

\* Serialize for Counter with every counter written as a string.
Counter_serialize_str(counter) ==
    CASE counter.k = "Counter::Number" -> JsonString(to_string(counter.n))
      [] counter.k = "Counter::Text"   -> JsonString(counter.t)

\* Serialize for Counter (types/api/orders.rs:211-221)
Counter_serialize(counter) ==
    CASE counter.k = "Counter::Number" -> JsonNumber(to_string(counter.n))
      [] counter.k = "Counter::Text"   -> JsonString(counter.t)

-----------------------------------------------------------------------------
(* The HTTP exchange                                                       *)

Statuses == {200, 201, 400, 404, 429, 500}

EmptyJson ==
    [listing   |-> [hash |-> "", chain |-> "", protocol_address |-> ""],
     fulfiller |-> [address |-> ""]]

\* A request built on a client of its own, without the default headers.
RequestWithoutDefaults(method, url, query, json) ==
    [method  |-> method,
     url     |-> url,
     headers |-> {},
     query   |-> query,
     json    |-> json]

\* A request as reqwest sends it: the client's default headers go with it.
Request(method, url, query, json) ==
    [method  |-> method,
     url     |-> url,
     headers |-> client.client.default_headers,
     query   |-> query,
     json    |-> json]

NoRequest ==
    [method |-> "", url |-> "", headers |-> {}, query |-> <<>>, json |-> EmptyJson]

\* Nothing has come back yet.
NoResponse == [got |-> "nothing", status |-> 0, body |-> NoBody]

\* The status some call of the client saw last, kept in one place for all.
StatusShared(c) ==
    IF \E d \in Callers : d # c /\ resp[d].got \in {"head", "body", "body_error"}
    THEN resp[CHOOSE d \in Callers :
                d # c /\ resp[d].got \in {"head", "body", "body_error"}].status
    ELSE resp[c].status

\* res.status() (client.rs:75): the status of the call's own response.
StatusSeen(c) == resp[c].status

CanCall(c) == pc[c] \in {"idle", "done", "dropped"}

\* `.send()`: the request is issued and the future suspends.
Send(c, o, request) ==
    /\ pc'     = [pc EXCEPT ![c] = "sending"]
    /\ op'     = [op EXCEPT ![c] = o]
    /\ req'    = [req EXCEPT ![c] = request]
    /\ sent'   = [sent EXCEPT ![c] = 1]
    /\ resp'   = [resp EXCEPT ![c] = NoResponse]
    /\ result' = [result EXCEPT ![c] = Pending]
    /\ UNCHANGED <<client, codec>>

\* The call returns before anything was sent.
ReturnEarly(c, o, err) ==
    /\ pc'     = [pc EXCEPT ![c] = "done"]
    /\ op'     = [op EXCEPT ![c] = o]
    /\ req'    = [req EXCEPT ![c] = NoRequest]
    /\ sent'   = [sent EXCEPT ![c] = 0]
    /\ resp'   = [resp EXCEPT ![c] = NoResponse]
    /\ result' = [result EXCEPT ![c] = err]
    /\ UNCHANGED <<client, codec>>

\* client.rs:52-55, up to `.send()`
get_collection_by_slug(c) ==
    /\ CanCall(c)
    /\ \E collection_slug \in CollectionSlugs :
         Send(c, "get_collection_by_slug",
              Request("GET", ApiUrl_get_collection(client.url, collection_slug),
                      <<>>, EmptyJson))

\* client.rs:57-67, up to `.send()`
retrieve_listings(c, requests) ==
    /\ CanCall(c)
    /\ \E r \in requests :
         LET qs == to_qs_vec(r)
         IN  IF qs.ok
             THEN Send(c, "retrieve_listings",
                       Request("GET", ApiUrl_get_listings(client.url, client.chain),
                               qs.vec, EmptyJson))
             ELSE ReturnEarly(c, "retrieve_listings", qs.err)

\* client.rs:71-72, up to `.send()`
fulfill_listing(c) ==
    /\ CanCall(c)
    /\ \E r \in FulfillListingRequests :
         Send(c, "fulfill_listing",
              Request("POST", ApiUrl_fulfill_listing(client.url), <<>>,
                      FulfillListingRequestJson(r)))

\* get_collection with the path appended to the client's own url.
get_collection_in_place(c) ==
    /\ CanCall(c)
    /\ \E collection_slug \in CollectionSlugs :
         /\ pc'     = [pc EXCEPT ![c] = "sending"]
         /\ op'     = [op EXCEPT ![c] = "get_collection"]
         /\ req'    = [req EXCEPT ![c] =
                         Request("GET", ApiUrl_get_collection(client.url, collection_slug),
                                 <<>>, EmptyJson)]
         /\ sent'   = [sent EXCEPT ![c] = 1]
         /\ resp'   = [resp EXCEPT ![c] = NoResponse]
         /\ result' = [result EXCEPT ![c] = Pending]
         /\ client' = [client EXCEPT !.url.base = @ \o "/collections"]
         /\ UNCHANGED codec

\* client.rs:99-102, up to `.send()`
get_collection(c) ==
    /\ CanCall(c)
    /\ \E collection_slug \in CollectionSlugs :
         Send(c, "get_collection",
              Request("GET", ApiUrl_get_collection(client.url, collection_slug),
                      <<>>, EmptyJson))

\* client.rs:104-118, up to `.send()`
get_all_listings(c, requests) ==
    /\ CanCall(c)
    /\ \E collection_slug \in CollectionSlugs, params \in requests :
         LET query_parameters == UrlParams(params)
         IN  Send(c, "get_all_listings",
                  Request("GET",
                          ApiUrl_get_all_listings(client.url, collection_slug,
                                                  query_parameters),
                          <<>>, EmptyJson))

\* send() fails and the request is issued again.
SendFailsRetry(c) ==
    /\ pc[c] = "sending"
    /\ sent' = [sent EXCEPT ![c] = @ + 1]
    /\ UNCHANGED <<client, codec, pc, op, req, resp, result>>

\* `.send().await` yields Err(e): `?` (client.rs:53, 63, 100, 114) and the
\* Err arm (client.rs:95) return it.
SendFails(c) ==
    /\ pc[c] = "sending"
    /\ pc'     = [pc EXCEPT ![c] = "done"]
    /\ resp'   = [resp EXCEPT ![c] = [@ EXCEPT !.got = "error"]]
    /\ result' = [result EXCEPT ![c] = ErrReqwest("request")]
    /\ UNCHANGED <<client, codec, op, req, sent>>

\* The response is handed out as soon as its head is in, still empty.
SendReturnsEager(c, statuses) ==
    /\ pc[c] = "sending"
    /\ \E status \in statuses :
         resp' = [resp EXCEPT ![c] = [got |-> "head", status |-> status, body |-> NoBody]]
    /\ pc'     = [pc EXCEPT ![c] = "reading"]
    /\ result' = [result EXCEPT ![c] = Ok({})]
    /\ UNCHANGED <<client, codec, op, req, sent>>

\* `.send().await` yields Ok(res): the call goes on to `.json::<T>()` and
\* suspends on the body (client.rs:53, 64, 76, 92, 100, 115).
SendReturns(c, statuses) ==
    /\ pc[c] = "sending"
    /\ \E status \in statuses :
         resp' = [resp EXCEPT ![c] = [got |-> "head", status |-> status, body |-> NoBody]]
    /\ pc' = [pc EXCEPT ![c] = "reading"]
    /\ UNCHANGED <<client, codec, op, req, sent, result>>

\* A body read that leaves the call waiting, to read and decode again.
BodyArrivesAgain(c, bodies) ==
    /\ pc[c] = "reading"
    /\ \E read_ok \in BOOLEAN :
       \E body \in IF read_ok THEN bodies ELSE {NoBody} :
         /\ resp'   = [resp EXCEPT ![c] =
                         [@ EXCEPT !.got  = IF read_ok THEN "body" ELSE "body_error",
                                   !.body = body]]
         /\ result' = [result EXCEPT ![c] = Responded(op[c], StatusSeen(c), read_ok, body)]
    /\ UNCHANGED <<client, codec, pc, op, req, sent>>

\* `.json::<T>().await` completes: the body read failed, or the body is in
\* and is decoded; the call returns.
BodyArrives(c, bodies) ==
    /\ pc[c] = "reading"
    /\ \E read_ok \in BOOLEAN :
       \E body \in IF read_ok THEN bodies ELSE {NoBody} :
         /\ resp'   = [resp EXCEPT ![c] =
                         [@ EXCEPT !.got  = IF read_ok THEN "body" ELSE "body_error",
                                   !.body = body]]
         /\ result' = [result EXCEPT ![c] = Responded(op[c], StatusSeen(c), read_ok, body)]
    /\ pc' = [pc EXCEPT ![c] = "done"]
    /\ UNCHANGED <<client, codec, op, req, sent>>

\* The caller drops the future at one of its two await points, and with it
\* the response it held: nothing is returned.
Drop(c) ==
    /\ pc[c] \in {"sending", "reading"}
    /\ pc'   = [pc EXCEPT ![c] = "dropped"]
    /\ resp' = [resp EXCEPT ![c] = NoResponse]
    /\ UNCHANGED <<client, codec, op, req, sent, result>>

-----------------------------------------------------------------------------
(* What the server answers                                                 *)

\* Messages the two recognised ones are told from.
MSG_OTHER == "Invalid fulfiller address"
MSG_CANNOT_FULFILL_NO_STOP == "This order can not be fulfilled at this time"
MSG_ORDER_HASH_LOWER == "the order_hash you provided does not exist"

EnvelopeMessages ==
    {<<>>,
     <<MSG_ORDER_HASH>>,
     <<MSG_CANNOT_FULFILL>>,
     <<MSG_ORDER_HASH, MSG_OTHER>>,
     <<MSG_CANNOT_FULFILL, MSG_ORDER_HASH>>,
     <<MSG_OTHER>>,
     <<MSG_OTHER, MSG_ORDER_HASH>>,
     <<MSG_OTHER, MSG_OTHER, MSG_CANNOT_FULFILL>>,
     <<MSG_CANNOT_FULFILL_NO_STOP>>,
     <<MSG_ORDER_HASH_LOWER, MSG_CANNOT_FULFILL>>}

\* The required key a body that falls short of a response type lacks.
MissingKey(type) ==
    CASE type = "FulfillListingResponse"   -> "fulfillment_data"
      [] type = "RetrieveListingsResponse" -> "orders"
      [] type = "GetAllListingsResponse"   -> "listings"
      [] type = "CollectionResponse"       -> "created_date"

Complete(type) == Body(TRUE, JAbsent, Required(type) \cup Optional(type))
Minimal(type)  == Body(TRUE, JAbsent, Required(type))
Partial(type)  ==
    Body(TRUE, JAbsent, (Required(type) \cup Optional(type)) \ {MissingKey(type)})

\* An object that has every key of every response type, and "errors" too.
Everything ==
    Body(TRUE, JArr(<<JStr(MSG_OTHER)>>),
         UNION {Required(t) \cup Optional(t) : t \in ResponseTypes})

Bodies ==
       {NoBody, Everything}
  \cup {EnvelopeBody(msgs) : msgs \in EnvelopeMessages}
  \cup {Body(TRUE, JArr(<<JStr(MSG_ORDER_HASH), JNum(7)>>), {}),
        Body(TRUE, JStr(MSG_ORDER_HASH), {}),
        Body(TRUE, JNull, {}),
        Body(TRUE, JAbsent, {})}
  \cup {Complete(t) : t \in ResponseTypes}
  \cup {Minimal(t) : t \in ResponseTypes}
  \cup {Partial(t) : t \in ResponseTypes}

\* The answers of SpecShared.
SharedStatuses == {200, 400}
SharedBodies == {Everything, EnvelopeBody(<<MSG_ORDER_HASH>>)}

-----------------------------------------------------------------------------
(* The polymorphic fields (types/api.rs:299-334, types/api/orders.rs:11-17) *)
(* and the chain names                                                     *)

UserId(chars) == Val("UserId", chars, <<>>)

\* Deserializer::deserialize_any on a number: visit_u64 is called with the
\* value of an unsigned integer literal that fits u64, another method of
\* the visitor for any other number.
visit_u64(literal) ==
    IF \A i \in 1..Len(literal) : InSeq(DecDigits, literal[i])
    THEN from_base_be(10, [i \in 1..Len(literal) |-> DigitValue(literal[i])],
                      Zero(U64_LIMBS))
    ELSE [ok |-> FALSE, v |-> Zero(U64_LIMBS), err |-> "invalid type"]

\* Deserialize for UserId with no visit_u64.
UserId_deserialize_str(json) ==
    CASE json.k = "string" -> UserId(json.t)
      [] OTHER -> CodecErr("invalid type")

\* Deserialize for UserId (types/api.rs:302-334): visit_u64 gives
\* id.to_string(), visit_str the string itself; the visitor has no other
\* method.
UserId_deserialize(json) ==
    CASE json.k = "string" -> UserId(json.t)
      [] json.k = "number" ->
           LET id == visit_u64(json.t)
           IN  IF id.ok THEN UserId(to_string(id.v)) ELSE CodecErr("invalid type")
      [] OTHER -> CodecErr("invalid type")

\* Serialize for UserId that writes a number where the id is one.
UserId_serialize_number(id) ==
    IF id.t # <<>> /\ \A i \in 1..Len(id.t) : InSeq(DecDigits, id.t[i])
    THEN JsonNumber(id.t)
    ELSE JsonString(id.t)

\* derive(Serialize) for UserId(pub String) (types/api.rs:299-300): a
\* newtype struct is written as its field, a string.
UserId_serialize(id) == JsonString(id.t)

ETH == <<"E", "T", "H">>

CurrencyEth == Val("Currency::Eth", <<>>, <<>>)
CurrencyOther(chars) == Val("Currency::Other", chars, <<>>)

\* Deserialize for Currency that matches the name in any case.
Currency_deserialize_any_case(json) ==
    CASE json.k = "string" ->
           IF json.t \in {ETH, <<"e", "t", "h">>, <<"E", "t", "h">>}
           THEN CurrencyEth ELSE CurrencyOther(json.t)
      [] OTHER -> CodecErr("data did not match any variant of enum Currency")

\* derive(Deserialize) for Currency (types/api/orders.rs:11-17): the
\* variants that are not untagged are tried by name first, Eth under
\* "ETH" (rename_all = "SCREAMING_SNAKE_CASE"); then Other(String), which
\* takes any string.
Currency_deserialize(json) ==
    CASE json.k = "string" ->
           IF json.t = ETH THEN CurrencyEth ELSE CurrencyOther(json.t)
      [] OTHER -> CodecErr("data did not match any variant of enum Currency")

\* Serialize for Currency with Other written under its tag.
Currency_serialize_tagged(currency) ==
    CASE currency.k = "Currency::Eth"   -> JsonString(ETH)
      [] currency.k = "Currency::Other" -> Val("object", <<"OTHER", currency.t>>, <<>>)

\* derive(Serialize) for Currency: Eth is the string "ETH", Other(s), being
\* untagged, the string s.
Currency_serialize(currency) ==
    CASE currency.k = "Currency::Eth"   -> JsonString(ETH)
      [] currency.k = "Currency::Other" -> JsonString(currency.t)

\* A chain, and a name of a chain on the wire.
ChainVal(chain) == Val("Chain", <<chain>>, <<>>)
WireName(name)  == Val("name", <<name>>, <<>>)

\* The names accepted beside the canonical ones (spec 4.1).
ChainAlias(name) ==
    CASE name = "mainnet" -> "ethereum"
      [] name = "polygon" -> "matic"
      [] name = "fuji"    -> "avalanche_fuji"
      [] OTHER            -> name

\* Parsing that knows the canonical names only.
Chain_from_str_canonical(name) ==
    IF \E chain \in Chains : ChainName(chain) = name.t[1]
    THEN ChainVal(CHOOSE chain \in Chains : ChainName(chain) = name.t[1])
    ELSE CodecErr("parse error")

\* Parsing of a chain name (spec 4.1): a canonical name or an alias gives
\* its member, any other name a parse error.
Chain_from_str(name) ==
    LET canonical == ChainAlias(name.t[1])
    IN  IF \E chain \in Chains : ChainName(chain) = canonical
        THEN ChainVal(CHOOSE chain \in Chains : ChainName(chain) = canonical)
        ELSE CodecErr("parse error")

\* The name a chain is emitted under.
Chain_to_string(chain) == WireName(ChainName(chain.t[1]))

-----------------------------------------------------------------------------
(* SeaportOrderParameters (types/api/orders.rs:142-161)                    *)

\* a <= b for two values of as many limbs.
LimbsLeq(a, b) ==
    \/ a = b
    \/ \E i \in 1..Len(a) :
         /\ a[i] < b[i]
         /\ \A j \in (i + 1)..Len(a) : a[j] = b[j]

\* i64::from_str: a sign, "+" or "-", may come first; then decimal digits,
\* one at least, of a value from -2^63 to 2^63 - 1.  The value is given as
\* its sign and its magnitude.
i64_from_str(src) ==
    LET signed == src # <<>> /\ src[1] \in {"+", "-"}
        digits == IF signed THEN Tail(src) ELSE src
        res    == from_base_be(10, [i \in 1..Len(digits) |-> DigitValue(digits[i])],
                               Zero(U64_LIMBS))
        i64max == [i \in 1..U64_LIMBS |->
                     IF i = U64_LIMBS THEN 2 ^ (LIMB_BITS - 1) - 1 ELSE LimbBase - 1]
        i64min == [i \in 1..U64_LIMBS |->
                     IF i = U64_LIMBS THEN 2 ^ (LIMB_BITS - 1) ELSE 0]
        minus  == signed /\ src[1] = "-"
    IN  IF digits = <<>> \/ \E i \in 1..Len(digits) : ~InSeq(DecDigits, digits[i])
        THEN [ok |-> FALSE, minus |-> FALSE, v |-> Zero(U64_LIMBS)]
        ELSE IF ~res.ok \/ ~LimbsLeq(res.v, IF minus THEN i64min ELSE i64max)
        THEN [ok |-> FALSE, minus |-> FALSE, v |-> Zero(U64_LIMBS)]
        ELSE [ok |-> TRUE, minus |-> minus /\ ~IsZero(res.v), v |-> res.v]

\* DateTime<Utc>: an instant, as seconds before or after the Unix epoch.
DateTime(minus, secs) == Val("DateTime", <<IF minus THEN "-" ELSE "+">>, secs)

\* 9999-12-31T23:59:59Z in seconds after the epoch.
DEC_YEAR_9999_END == <<"2", "5", "3", "4", "0", "2", "3", "0", "0", "7", "9", "9">>

\* The instants the datetimes of the model go up to.  chrono's own range
\* ends later; the seconds between the two are not run.
InModelledRange(secs) ==
    LimbsLeq(secs,
             from_base_be(10, [i \in 1..Len(DEC_YEAR_9999_END) |->
                                 DigitValue(DEC_YEAR_9999_END[i])],
                          Zero(U64_LIMBS)).v)

\* TimestampSeconds that takes a number as well as a string.
TimestampSeconds_deserialize_as_flexible(json) ==
    IF json.k \notin {"string", "number"} THEN CodecErr("invalid type")
    ELSE LET secs == i64_from_str(json.t)
         IN  CASE ~secs.ok -> CodecErr("invalid digit found in string")
               [] secs.ok /\ InModelledRange(secs.v) -> DateTime(secs.minus, secs.v)

\* TimestampSeconds<String>::deserialize_as for DateTime<Utc>
\* (types/api/orders.rs:149-152): the strictness is the default, Strict,
\* under which the format String takes a JSON string and nothing else; the
\* string is parsed as an i64 of seconds and added to the epoch.
TimestampSeconds_deserialize_as(json) ==
    IF json.k # "string" THEN CodecErr("invalid type")
    ELSE LET secs == i64_from_str(json.t)
         IN  CASE ~secs.ok -> CodecErr("invalid digit found in string")
               [] secs.ok /\ InModelledRange(secs.v) -> DateTime(secs.minus, secs.v)

\* u64::deserialize: a JSON number that is an unsigned integer literal
\* fitting u64.
u64_deserialize(json) ==
    IF json.k # "number" THEN CodecErr("invalid type")
    ELSE LET n == visit_u64(json.t)
         IN  IF n.ok THEN Val("u64", <<>>, n.v) ELSE CodecErr("invalid type")

\* The object of a SeaportOrderParameters on the wire, its keys in camelCase;
\* consideration is the array's elements, each a well-formed Consideration.
\* The keys left out are strings and arrays the decoder keeps as they come.
SeaportOrderParametersJson(consideration, startTime, endTime, total, counter) ==
    Val("SeaportOrderParametersJson",
        <<[consideration |-> consideration, startTime |-> startTime,
           endTime |-> endTime, totalOriginalConsiderationItems |-> total,
           counter |-> counter]>>, <<>>)

\* A decoder that counts the consideration items itself.
SeaportOrderParameters_deserialize_counted(json) ==
    LET o          == json.t[1]
        start_time == TimestampSeconds_deserialize_as(o.startTime)
        end_time   == TimestampSeconds_deserialize_as(o.endTime)
        total      == u64_deserialize(o.totalOriginalConsiderationItems)
        counter    == Counter_deserialize(o.counter)
    IN  IF \E field \in {start_time, end_time, total, counter} : field.k = "Err"
        THEN CodecErr("invalid type")
        ELSE Val("SeaportOrderParameters",
                 <<[consideration |-> o.consideration,
                    start_time    |-> start_time,
                    end_time      |-> end_time,
                    total_original_consideration_items |->
                        Val("u64", <<>>, [i \in 1..U64_LIMBS |->
                                            IF i = 1 THEN Len(o.consideration) ELSE 0]),
                    counter       |-> counter]>>, <<>>)

\* derive(Deserialize) for SeaportOrderParameters
\* (types/api/orders.rs:142-161): each field is decoded by its own codec
\* from the key of its name; the first failure is the result.
SeaportOrderParameters_deserialize(json) ==
    LET o          == json.t[1]
        start_time == TimestampSeconds_deserialize_as(o.startTime)
        end_time   == TimestampSeconds_deserialize_as(o.endTime)
        total      == u64_deserialize(o.totalOriginalConsiderationItems)
        counter    == Counter_deserialize(o.counter)
    IN  IF \E field \in {start_time, end_time, total, counter} : field.k = "Err"
        THEN CodecErr("invalid type")
        ELSE Val("SeaportOrderParameters",
                 <<[consideration |-> o.consideration,
                    start_time    |-> start_time,
                    end_time      |-> end_time,
                    total_original_consideration_items |-> total,
                    counter       |-> counter]>>, <<>>)

-----------------------------------------------------------------------------
(* The values the codecs are run on                                        *)

\* Steps of one run of the codecs: a value, encoded, decoded again.
MaxCodecSteps == 2

Repeat(c, n) == [i \in 1..n |-> c]

\* u64::MAX, 2^64, u128::MAX, 2^128, U256::MAX and 2^256 in decimal.
DEC_U64_MAX ==
    <<"1", "8", "4", "4", "6", "7", "4", "4", "0", "7", "3", "7", "0", "9",
      "5", "5", "1", "6", "1", "5">>

DEC_2_64 ==
    <<"1", "8", "4", "4", "6", "7", "4", "4", "0", "7", "3", "7", "0", "9",
      "5", "5", "1", "6", "1", "6">>

DEC_U128_MAX ==
    <<"3", "4", "0", "2", "8", "2", "3", "6", "6", "9", "2", "0", "9", "3",
      "8", "4", "6", "3", "4", "6", "3", "3", "7", "4", "6", "0", "7", "4",
      "3", "1", "7", "6", "8", "2", "1", "1", "4", "5", "5">>

DEC_2_128 ==
    <<"3", "4", "0", "2", "8", "2", "3", "6", "6", "9", "2", "0", "9", "3",
      "8", "4", "6", "3", "4", "6", "3", "3", "7", "4", "6", "0", "7", "4",
      "3", "1", "7", "6", "8", "2", "1", "1", "4", "5", "6">>

DEC_U256_MAX ==
    <<"1", "1", "5", "7", "9", "2", "0", "8", "9", "2", "3", "7", "3", "1",
      "6", "1", "9", "5", "4", "2", "3", "5", "7", "0", "9", "8", "5", "0",
      "0", "8", "6", "8", "7", "9", "0", "7", "8", "5", "3", "2", "6", "9",
      "9", "8", "4", "6", "6", "5", "6", "4", "0", "5", "6", "4", "0", "3",
      "9", "4", "5", "7", "5", "8", "4", "0", "0", "7", "9", "1", "3", "1",
      "2", "9", "6", "3", "9", "9", "3", "5">>

DEC_2_256 ==
    <<"1", "1", "5", "7", "9", "2", "0", "8", "9", "2", "3", "7", "3", "1",
      "6", "1", "9", "5", "4", "2", "3", "5", "7", "0", "9", "8", "5", "0",
      "0", "8", "6", "8", "7", "9", "0", "7", "8", "5", "3", "2", "6", "9",
      "9", "8", "4", "6", "6", "5", "6", "4", "0", "5", "6", "4", "0", "3",
      "9", "4", "5", "7", "5", "8", "4", "0", "0", "7", "9", "1", "3", "1",
      "2", "9", "6", "3", "9", "9", "3", "6">>

\* transaction.value of resources/response_fulfill_listing_1.6.json
\* (client.rs:157): 23690000000000000000, more than u64::MAX.
DEC_FIXTURE_VALUE == <<"2", "3", "6", "9">> \o Repeat("0", 16)

\* "user": 14210173 of the account of types/api.rs:551
DEC_FIXTURE_USER == <<"1", "4", "2", "1", "0", "1", "7", "3">>

\* startTime of the first listing of resources/response_get_all_listings.json
\* (client.rs:140-143): 2023-10-29T04:50:26Z
DEC_FIXTURE_START_TIME == <<"1", "6", "9", "8", "5", "5", "5", "0", "2", "6">>

\* n < 2^16, 2^(16 k) - 1 and 2^b as U256.
Small(n) == [i \in 1..U256_LIMBS |-> IF i = 1 THEN n ELSE 0]
Ones(k)  == [i \in 1..U256_LIMBS |-> IF i <= k THEN LimbBase - 1 ELSE 0]
Bit(b)   ==
    [i \in 1..U256_LIMBS |->
        IF i = (b \div LIMB_BITS) + 1 THEN 2 ^ (b % LIMB_BITS) ELSE 0]

U256Values ==
    {U256(v) : v \in
        {Zero(U256_LIMBS), Small(1), Small(7), Small(10), Small(255), Ones(1),
         Bit(16), Ones(U64_LIMBS), Bit(64), Ones(U128_LIMBS), Bit(128),
         [Bit(128) EXCEPT ![1] = 1], Bit(255), Ones(U256_LIMBS),
         [Ones(U256_LIMBS) EXCEPT ![1] = LimbBase - 2]}}

\* Literals of unsigned integers: no sign, no fraction, no exponent, no
\* leading zero.
UnsignedLiterals ==
    {<<"0">>, <<"7">>, <<"1", "2">>, DEC_U64_MAX, DEC_2_64, DEC_U128_MAX,
     DEC_2_128, DEC_FIXTURE_VALUE, DEC_U256_MAX, DEC_2_256,
     <<"1">> \o Repeat("0", 78),
     DEC_FIXTURE_USER, DEC_FIXTURE_START_TIME, DEC_YEAR_9999_END}

\* The other literals of JSON numbers.
OtherNumberLiterals ==
    {<<"-", "1">>, <<"-", "0">>, <<"1", ".", "5">>, <<"1", "e", "3">>}

\* Strings that are no literal of an unsigned integer.
OtherStrings ==
    {<<>>, <<"0", "0", "7">>, <<"+", "1">>, <<"-", "1">>, <<" ", "1">>,
     <<"1", ".", "5">>, <<"1", "e", "3">>, <<"a", "b", "c">>, <<"1", "2", "a">>,
     <<"1", "_", "0", "0", "0">>, <<"0", "x", "1", "0">>, <<"0", "X", "f", "F">>,
     <<"0", "x">>, <<"0", "b", "1", "1">>, <<"0", "o", "1", "7">>,
     <<"0", "x">> \o Repeat("f", 64), <<"0", "x">> \o Repeat("f", 65),
     ETH, <<"e", "t", "h">>, <<"E", "t", "h">>, <<"E", "T", "H", " ">>,
     <<"U", "S", "D">>}

JsonKinds == {"string", "number", "null", "bool", "array", "object"}

JsonValues ==
         {JsonString(t) : t \in UnsignedLiterals \cup OtherStrings}
    \cup {JsonNumber(t) : t \in UnsignedLiterals \cup OtherNumberLiterals}
    \cup {Val(k, <<>>, <<>>) : k \in {"null", "bool", "array", "object"}}

ZeroAddress == [i \in 1..20 |-> 0]

\* 0x541a9eb3962494caffeda36a495cc978c7ecc21c6b714aaabc678187d3da9ac7
\* (client.rs:138)
OrderHash ==
    <<84, 26, 158, 179, 150, 36, 148, 202, 255, 237, 163, 106, 73, 92, 201, 120,
      199, 236, 194, 28, 107, 113, 74, 170, 188, 103, 129, 135, 211, 218, 154, 199>>

ProtocolVersions == {"V1_1", "V1_4", "V1_5", "V1_6"}

\* Every request the fields below make up.
AllRetrieveListingsRequests ==
    [asset_contract_address : {NoAddress, [some |-> TRUE, v |-> BaycAddress]},
     limit                  : {NoNumber, [some |-> TRUE, v |-> 0], [some |-> TRUE, v |-> 255]},
     token_ids              : {<<>>, <<"1">>, <<"1", "2", "3">>, <<"209", "1", "1">>},
     maker                  : {NoAddress, [some |-> TRUE, v |-> BaycAddress]},
     taker                  : {NoAddress, [some |-> TRUE, v |-> ZeroAddress]},
     order_by               : {None, Some("CreatedDate"), Some("EthPrice")},
     order_direction        : {None, Some("Asc"), Some("Desc")},
     listed_after           : {NoNumber, [some |-> TRUE, v |-> 1691681235]},
     listed_before          : {NoNumber, [some |-> TRUE, v |-> 0]}]

AllFulfillListingRequests ==
    [listing   : [hash : {ZeroHash, OrderHash}, chain : Chains,
                  protocol_version : ProtocolVersions],
     fulfiller : [address : {BaycAddress, ZeroAddress}]]

\* Currency values: Eth, and Other of a string, "ETH" among them.
CurrencyValues ==
    {CurrencyEth} \cup
    {CurrencyOther(t) : t \in {ETH, <<"e", "t", "h">>, <<"U", "S", "D">>, <<>>}}

\* Names of chains: the canonical ones, the aliases and some that are
\* neither.
WireNames ==
    {ChainName(chain) : chain \in Chains} \cup
    {"mainnet", "polygon", "fuji"} \cup
    {"Ethereum", "ETHEREUM", "avalanche", "bsc", "Mainnet", ""}

\* Objects of SeaportOrderParameters: up to two consideration items, the
\* count the object states being right or wrong, a number or a string.
SeaportOrderParametersJsons ==
    {SeaportOrderParametersJson(consideration, startTime,
                                JsonString(DEC_YEAR_9999_END), total, counter) :
        consideration \in {<<>>, <<"c1">>, <<"c1", "c2">>},
        startTime \in {JsonString(DEC_FIXTURE_START_TIME),
                       JsonNumber(DEC_FIXTURE_START_TIME)},
        total \in {JsonNumber(<<"0">>), JsonNumber(<<"1">>), JsonNumber(<<"2">>),
                   JsonNumber(DEC_2_64), JsonString(<<"1">>)},
        counter \in {JsonNumber(<<"0">>), JsonString(<<"0">>)}}

CodecInputs ==
         U256Values
    \cup JsonValues
    \cup CurrencyValues
    \cup {ChainVal(chain) : chain \in Chains}
    \cup {WireName(name) : name \in WireNames}
    \cup SeaportOrderParametersJsons
    \cup {Val("RetrieveListingsRequest", <<r>>, <<>>) : r \in AllRetrieveListingsRequests}
    \cup {Val("FulfillListingRequest", <<r>>, <<>>) : r \in AllFulfillListingRequests}

\* No codec is at work.
NoCodec == [fns |-> <<>>, vals |-> <<>>]

-----------------------------------------------------------------------------
(* The codecs at work                                                      *)

\* The value the run stands at.
Arg == codec.vals[Len(codec.vals)]

\* fn is applied to the value the run stands at, if that is of a kind fn is
\* ever handed, and gives out.
Apply(fn, kinds, out) ==
    /\ codec.vals # <<>>
    /\ Len(codec.fns) < MaxCodecSteps
    /\ Arg.k \in kinds
    /\ codec' = [fns  |-> Append(codec.fns, fn),
                 vals |-> Append(codec.vals, out)]
    /\ UNCHANGED <<client, pc, op, req, sent, resp, result>>

call_u256_from_dec_str == Apply("u256_from_dec_str", JsonKinds, u256_from_dec_str(Arg))

call_u256_to_dec_str == Apply("u256_to_dec_str", {"U256"}, u256_to_dec_str(Arg))

call_u256_from_dec == Apply("u256_from_dec", JsonKinds, u256_from_dec(Arg))

call_u256_to_dec == Apply("u256_to_dec", {"U256"}, u256_to_dec(Arg))

call_Counter_deserialize == Apply("Counter::deserialize", JsonKinds, Counter_deserialize(Arg))

call_Counter_serialize ==
    Apply("Counter::serialize", {"Counter::Number", "Counter::Text"}, Counter_serialize(Arg))

\* req.to_qs_vec() (client.rs:61)
QsOrErr(arg) ==
    LET qs == to_qs_vec(arg.t[1])
    IN  IF qs.ok THEN Val("qs", qs.vec, <<>>) ELSE CodecErr(qs.err.code)

call_to_qs_vec == Apply("to_qs_vec", {"RetrieveListingsRequest"}, QsOrErr(Arg))

\* .json(&req) (client.rs:72): the body is the request serialised.
JsonObject(arg) == Val("object", <<FulfillListingRequestJson(arg.t[1])>>, <<>>)

call_FulfillListingRequest_serialize ==
    Apply("FulfillListingRequest::serialize", {"FulfillListingRequest"}, JsonObject(Arg))

call_UserId_deserialize == Apply("UserId::deserialize", JsonKinds, UserId_deserialize(Arg))

call_UserId_serialize == Apply("UserId::serialize", {"UserId"}, UserId_serialize(Arg))

call_Currency_deserialize ==
    Apply("Currency::deserialize", JsonKinds, Currency_deserialize(Arg))

call_Currency_serialize ==
    Apply("Currency::serialize", {"Currency::Eth", "Currency::Other"},
          Currency_serialize(Arg))

call_Chain_from_str == Apply("Chain::from_str", {"name"}, Chain_from_str(Arg))

call_Chain_to_string == Apply("Chain::to_string", {"Chain"}, Chain_to_string(Arg))

call_TimestampSeconds_deserialize_as ==
    Apply("TimestampSeconds::deserialize_as", JsonKinds,
          TimestampSeconds_deserialize_as(Arg))

call_SeaportOrderParameters_deserialize ==
    Apply("SeaportOrderParameters::deserialize", {"SeaportOrderParametersJson"},
          SeaportOrderParameters_deserialize(Arg))

-----------------------------------------------------------------------------
(* Specifications                                                          *)

Idle ==
    /\ pc     = [c \in Callers |-> "idle"]
    /\ op     = [c \in Callers |-> "none"]
    /\ req    = [c \in Callers |-> NoRequest]
    /\ sent   = [c \in Callers |-> 0]
    /\ resp   = [c \in Callers |-> NoResponse]
    /\ result = [c \in Callers |-> Pending]

\* A client built from any configuration.
Init ==
    /\ \E cfg \in OpenSeaApiConfig : client = New(cfg)
    /\ Idle
    /\ codec = NoCodec

\* One caller, one call at a time, against every answer of the server.
Next ==
    \E c \in {1} :
        \/ get_collection_by_slug(c)
        \/ retrieve_listings(c, RetrieveListingsRequests)
        \/ fulfill_listing(c)
        \/ get_collection(c)
        \/ get_all_listings(c, GetAllListingsRequests)
        \/ SendFails(c)
        \/ SendReturns(c, Statuses)
        \/ BodyArrives(c, Bodies)
        \/ Drop(c)

Spec == Init /\ [][Next]_vars

\* The client of live_client() (tests/common/mod.rs:13-19).
InitShared ==
    /\ client = New(DefaultConfig)
    /\ Idle
    /\ codec = NoCodec

\* Every caller runs its calls on the one client, in any interleaving.
NextShared ==
    \E c \in Callers :
        \/ get_collection_by_slug(c)
        \/ retrieve_listings(c, {DefaultRetrieveListingsRequest})
        \/ fulfill_listing(c)
        \/ get_collection(c)
        \/ get_all_listings(c, {DefaultGetAllListingsRequest})
        \/ SendFails(c)
        \/ SendReturns(c, SharedStatuses)
        \/ BodyArrives(c, SharedBodies)
        \/ Drop(c)

SpecShared == InitShared /\ [][NextShared]_vars

\* The codecs run on every value of CodecInputs; no call of the client is
\* under way.
InitCodec ==
    /\ client = New(DefaultConfig)
    /\ Idle
    /\ \E v \in CodecInputs : codec = [fns |-> <<>>, vals |-> <<v>>]

NextCodec ==
    \/ call_u256_from_dec_str
    \/ call_u256_to_dec_str
    \/ call_u256_from_dec
    \/ call_u256_to_dec
    \/ call_Counter_deserialize
    \/ call_Counter_serialize
    \/ call_to_qs_vec
    \/ call_FulfillListingRequest_serialize
    \/ call_UserId_deserialize
    \/ call_UserId_serialize
    \/ call_Currency_deserialize
    \/ call_Currency_serialize
    \/ call_Chain_from_str
    \/ call_Chain_to_string
    \/ call_TimestampSeconds_deserialize_as
    \/ call_SeaportOrderParameters_deserialize

SpecCodec == InitCodec /\ [][NextCodec]_vars

-----------------------------------------------------------------------------
(* Properties                                                              *)

\* Caller c's call has returned after reading a response body.
ReturnedWithBody(c) == pc[c] = "done" /\ resp[c].got = "body"

\* The body is {"errors": [...]} with nothing but strings in the array.
IsEnvelope(body) ==
    /\ body.json
    /\ body.errors.k = "arr"
    /\ \A i \in 1..Len(body.errors.a) : body.errors.a[i].k = "str"

\* The messages of an envelope, in the order of the body.
Messages(body) == [i \in 1..Len(body.errors.a) |-> body.errors.a[i].s]

\* fulfill_listing returned on a 400 whose body is an error envelope.
FulfillEnvelope(c) ==
    /\ ReturnedWithBody(c)
    /\ op[c] = "fulfill_listing"
    /\ resp[c].status = 400
    /\ IsEnvelope(resp[c].body)

\* The body is an object that has every required key of the response type.
MatchesType(type, body) == body.json /\ Required(type) \subseteq body.keys

\* C1: fulfill_listing, on a 400 whose envelope has a non-empty errors list,
\* returns OrderHashDoesNotExist when the first message is exactly "The
\* order_hash you provided does not exist" and OrderCannotBeFulfilled when it
\* is exactly "This order can not be fulfilled at this time.", whatever the
\* later messages are.
C1_KnownFirstMessageIsTagged ==
    \A c \in Callers :
        (FulfillEnvelope(c) /\ Len(Messages(resp[c].body)) > 0) =>
            LET first_message == Messages(resp[c].body)[1]
            IN  /\ first_message = "The order_hash you provided does not exist"
                     => result[c] = ErrDetailed("OrderHashDoesNotExist")
                /\ first_message = "This order can not be fulfilled at this time."
                     => result[c] = ErrDetailed("OrderCannotBeFulfilled")

\* C1 witness: a recognised first message followed by another recognised one.
C1_Witness ==
    \E c \in Callers :
        /\ FulfillEnvelope(c)
        /\ Messages(resp[c].body) =
             <<"This order can not be fulfilled at this time.",
               "The order_hash you provided does not exist">>
        /\ result[c] = ErrDetailed("OrderCannotBeFulfilled")

\* C2: fulfill_listing, on a 400 whose errors list is empty or whose first
\* message is not exactly one of the two recognised strings (also when one of
\* them comes later in the list), returns the generic OpenSeaError, and its
\* envelope has all the messages of the body in their order.
C2_OtherFirstMessageIsGeneric ==
    \A c \in Callers :
        LET msgs == Messages(resp[c].body)
        IN  (/\ FulfillEnvelope(c)
             /\ \/ msgs = <<>>
                \/ msgs[1] \notin {"The order_hash you provided does not exist",
                                   "This order can not be fulfilled at this time."})
            => /\ result[c].tag = "OpenSeaError"
               /\ result[c].errors = msgs

\* C2 witness: a recognised message in second place only.
C2_Witness ==
    \E c \in Callers :
        /\ FulfillEnvelope(c)
        /\ Len(Messages(resp[c].body)) = 2
        /\ Messages(resp[c].body)[1] = "Invalid fulfiller address"
        /\ Messages(resp[c].body)[2] = "The order_hash you provided does not exist"
        /\ result[c].tag = "OpenSeaError"
        /\ Len(result[c].errors) = 2

\* C3: every operation, on a response whose status is neither 2xx nor 400,
\* returns the ServerStatus error with that status and the body as text, and
\* does not decode the body as a success response.
C3_OtherStatusIsServerStatus ==
    \A c \in Callers :
        (/\ ReturnedWithBody(c)
         /\ resp[c].status \notin 200..299
         /\ resp[c].status # 400)
        => /\ result[c].tag = "ServerStatus"
           /\ result[c].tag # "Ok"
           /\ result[c] # ErrReqwest("decode")

\* C4: each of the four operations, on a 400 with a well-formed error
\* envelope, returns the envelope's error (a known tag or the generic
\* envelope), not a decoding error.
C4_EnvelopeErrorForEveryOperation ==
    \A c \in Callers :
        (/\ ReturnedWithBody(c)
         /\ resp[c].status = 400
         /\ IsEnvelope(resp[c].body))
        => result[c].tag \in {"OpenSeaDetailedError", "OpenSeaError"}

\* The body matches what the call decodes it into: the envelope for
\* fulfill_listing on a 400, the operation's response type otherwise.
MatchesExpected(c) ==
    IF op[c] = "fulfill_listing" /\ resp[c].status = 400
    THEN IsEnvelope(resp[c].body)
    ELSE MatchesType(ResponseType(op[c]), resp[c].body)

\* C5: a call that has not completed has returned nothing; a completed call
\* returned exactly one outcome: a response with every required field
\* decoded and no error, or one tagged error and no response; a body that
\* does not match the expected schema gives the decoding error of the HTTP
\* layer and no response value.
C5_OneOutcome ==
    \A c \in Callers :
        /\ pc[c] # "done" => result[c] = Pending
        /\ pc[c] = "done" =>
             /\ result[c].tag \in
                  {"Ok", "Reqwest", "OpenSeaDetailedError", "OpenSeaError", "Other"}
             /\ result[c].tag = "Ok" =>
                  /\ result[c].code = "" /\ result[c].errors = <<>>
                  /\ resp[c].got = "body"
                  /\ Required(ResponseType(op[c])) \subseteq result[c].value
             /\ result[c].tag # "Ok" => result[c].value = {}
             /\ (resp[c].got = "body" /\ ~MatchesExpected(c))
                  => result[c] = ErrReqwest("decode")

\* C5 witness: a 200 whose body lacks one required key of the response type.
C5_Witness ==
    \E c \in Callers :
        /\ ReturnedWithBody(c)
        /\ resp[c].status = 200
        /\ resp[c].body = Partial(ResponseType(op[c]))
        /\ result[c] = ErrReqwest("decode")

\* C6: one invocation issues at most one HTTP request, whatever becomes of
\* it (transport failure, 400, another status, decoding failure).
C6_AtMostOneRequest ==
    \A c \in Callers :
        /\ sent[c] <= 1
        /\ pc[c] \in {"sending", "reading", "dropped"} => sent[c] = 1
        /\ resp[c].got # "nothing" => sent[c] = 1

\* C6 witness: a call ended by a transport failure sent one request.
C6_Witness ==
    \E c \in Callers :
        /\ pc[c] = "done"
        /\ result[c] = ErrReqwest("request")
        /\ sent[c] = 1

\* C7: no step of any operation, successful or failed, changes the client:
\* base url, chain and default headers stay as new() set them.
C7_ClientUnchanged == [][client' = client]_vars

\* C7 witness: a failed call has returned and the client is as constructed.
C7_Witness ==
    \E c \in Callers :
        /\ pc[c] = "done"
        /\ result[c].tag = "Reqwest"
        /\ \E cfg \in OpenSeaApiConfig : client = New(cfg)

\* C8: with several callers on one client, what a call returns depends on
\* its own operation, request and response alone: two calls that agree on
\* these return the same, in every interleaving.
C8_OutcomeOfOwnExchange ==
    \A c, d \in Callers :
        (/\ pc[c] = "done" /\ pc[d] = "done"
         /\ op[c] = op[d]
         /\ req[c] = req[d]
         /\ resp[c] = resp[d])
        => result[c] = result[d]

\* C8 witness: two callers ran the same operation on the same body and were
\* answered 400 and 200: each has the outcome of its own response.
C8_Witness ==
    \E c, d \in Callers :
        /\ c # d
        /\ pc[c] = "done" /\ pc[d] = "done"
        /\ op[c] = "fulfill_listing" /\ op[d] = "fulfill_listing"
        /\ resp[c].body = Everything /\ resp[d].body = Everything
        /\ resp[c].status = 400 /\ resp[d].status = 200
        /\ resp[c].got = "body" /\ resp[d].got = "body"
        /\ result[c].tag = "OpenSeaError"
        /\ result[d].tag = "Ok"

\* C9 as stated: a caller that abandons a call between send and decode
\* observes the Cancelled outcome.
C9_DroppedObservesCancelled ==
    \A c \in Callers : pc[c] = "dropped" => result[c].tag = "Cancelled"

\* C9, amended: a call abandoned between send and decode returns nothing at
\* all, neither a response nor an error; it sent its one request and no
\* other, and no response, whole or partial, is exposed.
C9_DroppedReturnsNothing ==
    \A c \in Callers :
        pc[c] = "dropped" =>
            /\ result[c] = Pending
            /\ sent[c] = 1
            /\ resp[c] = NoResponse

\* C9 witness: an abandoned call.
C9_Witness ==
    \E c \in Callers : pc[c] = "dropped" /\ sent[c] = 1 /\ op[c] = "fulfill_listing"

\* C10 as stated: the base url is https://testnets-api.opensea.io/v2 for a
\* test chain and https://api.opensea.io/api/v2 for any other.
C10_BaseUrlWithApi ==
    client.url.base =
        IF is_test_chain(client.chain)
        THEN "https://testnets-api.opensea.io/v2"
        ELSE "https://api.opensea.io/api/v2"

\* C10, amended: the base url is https://testnets-api.opensea.io/v2 for a
\* test chain and https://api.opensea.io/v2 for any other; the default
\* configuration (chain Ethereum) has the latter.
C10_BaseUrl ==
    /\ client.url.base =
         IF is_test_chain(client.chain)
         THEN "https://testnets-api.opensea.io/v2"
         ELSE "https://api.opensea.io/v2"
    /\ New(DefaultConfig).url.base = "https://api.opensea.io/v2"
    /\ New(DefaultConfig).chain = "Ethereum"

\* C10 witness: the client of the default configuration.
C10_Witness ==
    /\ client = New(DefaultConfig)
    /\ client.url.base = "https://api.opensea.io/v2"

\* The first and the second step of a run of the codecs.
Ran(fn) == Len(codec.fns) >= 1 /\ codec.fns[1] = fn
RanThen(fn1, fn2) == Len(codec.fns) >= 2 /\ codec.fns[1] = fn1 /\ codec.fns[2] = fn2

\* C11: every request a client issues carries the header X-API-KEY with
\* exactly the configured key when the configuration has an api_key, and no
\* X-API-KEY header when it has none.
C11_ApiKeyHeader ==
    \A cfg \in OpenSeaApiConfig : client = New(cfg) =>
        \A c \in Callers : sent[c] >= 1 =>
            {h \in req[c].headers : h[1] = "X-API-KEY"} =
                IF cfg.api_key.some THEN {<<"X-API-KEY", cfg.api_key.v>>} ELSE {}

C11_Witness ==
    /\ client = New([api_key |-> Some("secret-key"), chain |-> "Goerli"])
    /\ sent[1] = 1
    /\ req[1].headers = {<<"X-API-KEY", "secret-key">>}

\* C12: each operation uses its fixed method and path after the base URL:
\* retrieve_listings GET /orders/{chain}/seaport/listings with the emitted
\* name of the client's chain, get_all_listings GET
\* /listings/collection/{slug}/all, get_collection GET /collections/{slug},
\* fulfill_listing POST /listings/fulfillment_data.
C12_MethodAndPath ==
    \A c \in Callers : sent[c] >= 1 =>
        LET base == client.url.base
        IN  CASE op[c] = "retrieve_listings" ->
                   /\ req[c].method = "GET"
                   /\ req[c].url = base \o "/orders/" \o ChainName(client.chain)
                                        \o "/seaport/listings"
              [] op[c] = "get_all_listings" ->
                   /\ req[c].method = "GET"
                   /\ \E slug \in CollectionSlugs, p \in GetAllListingsRequests :
                        req[c].url = base \o "/listings/collection/" \o slug \o "/all"
                                          \o "?" \o UrlParams(p)
              [] op[c] \in {"get_collection", "get_collection_by_slug"} ->
                   /\ req[c].method = "GET"
                   /\ \E slug \in CollectionSlugs :
                        req[c].url = base \o "/collections/" \o slug
              [] op[c] = "fulfill_listing" ->
                   /\ req[c].method = "POST"
                   /\ req[c].url = base \o "/listings/fulfillment_data"

C12_Witness ==
    /\ client.chain = "BaseGoerli"
    /\ sent[1] = 1
    /\ op[1] = "retrieve_listings"
    /\ req[1].url = "https://testnets-api.opensea.io/v2/orders/base_goerli/seaport/listings"

\* The fields of RetrieveListingsRequest as declared (types/api.rs:37-61).
DeclaredOrder ==
    <<"asset_contract_address", "limit", "token_ids", "maker", "taker",
      "order_by", "order_direction", "listed_after", "listed_before">>

\* The values the pairs of a query string have under a key, in their order.
ValuesUnder(qs, key) ==
    LET under == SelectSeq(qs, LAMBDA pair : pair[1] = key)
    IN  [i \in 1..Len(under) |-> under[i][2]]

\* Lowercase 0x-hex of the addresses and hashes of the model, as the tests
\* write them (types/api.rs:609, 626; client.rs:138).
ExpectedHex(bytes) ==
    CASE bytes = BaycAddress -> "0xbc4ca0eda7647a8ab7c2061c2e118a18a936f13d"
      [] bytes = ZeroAddress -> "0x0000000000000000000000000000000000000000"
      [] bytes = ZeroHash    ->
           "0x0000000000000000000000000000000000000000000000000000000000000000"
      [] bytes = OrderHash   ->
           "0x541a9eb3962494caffeda36a495cc978c7ecc21c6b714aaabc678187d3da9ac7"

ExpectedDecimal(n) ==
    CASE n = 0          -> "0"
      [] n = 255        -> "255"
      [] n = 1691681235 -> "1691681235"

\* What a field of a request puts under its key.
ExpectedValues(r, key) ==
    CASE key = "asset_contract_address" ->
           IF r.asset_contract_address.some
           THEN <<ExpectedHex(r.asset_contract_address.v)>> ELSE <<>>
      [] key = "limit" -> IF r.limit.some THEN <<ExpectedDecimal(r.limit.v)>> ELSE <<>>
      [] key = "token_ids" -> r.token_ids
      [] key = "maker" -> IF r.maker.some THEN <<ExpectedHex(r.maker.v)>> ELSE <<>>
      [] key = "taker" -> IF r.taker.some THEN <<ExpectedHex(r.taker.v)>> ELSE <<>>
      [] key = "order_by" ->
           (CASE r.order_by = None                -> <<>>
              [] r.order_by = Some("CreatedDate") -> <<"created_date">>
              [] r.order_by = Some("EthPrice")    -> <<"eth_price">>)
      [] key = "order_direction" ->
           (CASE r.order_direction = None         -> <<>>
              [] r.order_direction = Some("Asc")  -> <<"asc">>
              [] r.order_direction = Some("Desc") -> <<"desc">>)
      [] key = "listed_after" ->
           IF r.listed_after.some THEN <<ExpectedDecimal(r.listed_after.v)>> ELSE <<>>
      [] key = "listed_before" ->
           IF r.listed_before.some THEN <<ExpectedDecimal(r.listed_before.v)>> ELSE <<>>

\* C13: for every RetrieveListingsRequest, to_qs_vec gives the pairs in
\* the order the fields are declared, nothing for a field that is None, one
\* pair per element of token_ids under the key token_ids in the order of
\* the elements (none for an empty sequence), addresses as lowercase 0x-hex
\* and timestamps as decimal seconds.
C13_QueryPairs ==
    Ran("to_qs_vec") =>
        LET r  == codec.vals[1].t[1]
            qs == codec.vals[2].t
        IN  /\ codec.vals[2].k = "qs"
            /\ \A i \in 1..Len(qs) : InSeq(DeclaredOrder, qs[i][1])
            /\ \A i, j \in 1..Len(qs) :
                 i < j => IndexOf(DeclaredOrder, qs[i][1]) <= IndexOf(DeclaredOrder, qs[j][1])
            /\ \A k \in 1..Len(DeclaredOrder) :
                 ValuesUnder(qs, DeclaredOrder[k]) = ExpectedValues(r, DeclaredOrder[k])

C13_Witness ==
    /\ Ran("to_qs_vec")
    /\ codec.vals[2].t =
         <<<<"asset_contract_address", "0xbc4ca0eda7647a8ab7c2061c2e118a18a936f13d">>,
           <<"token_ids", "1">>, <<"token_ids", "2">>, <<"token_ids", "3">>,
           <<"listed_after", "1691681235">>>>

\* The address of each protocol revision (spec 4.3).
ExpectedProtocolAddress(protocol_version) ==
    CASE protocol_version = "V1_1" -> "0x00000000006c3852cbEf3e08E8dF289169EdE581"
      [] protocol_version = "V1_4" -> "0x00000000000001ad428e4906aE43D8F9852d0dD6"
      [] protocol_version = "V1_5" -> "0x00000000000000ADc04C56Bf30aC9d3c0aAF14dC"
      [] protocol_version = "V1_6" -> "0x0000000000000068f116a894984e2db1123eb395"

\* C14: every FulfillListingRequest serialises to an object with exactly
\* the keys listing and fulfiller; listing has exactly hash (0x and 64
\* lowercase hex digits), chain (the chain's emitted name) and
\* protocol_address (the address of the protocol version, under that key
\* and not protocol_version); fulfiller has exactly address (0x and 40
\* lowercase hex digits).
C14_FulfillListingRequestJson ==
    Ran("FulfillListingRequest::serialize") =>
        LET r    == codec.vals[1].t[1]
            json == codec.vals[2].t[1]
        IN  /\ codec.vals[2].k = "object"
            /\ DOMAIN json = {"listing", "fulfiller"}
            /\ DOMAIN json.listing = {"hash", "chain", "protocol_address"}
            /\ DOMAIN json.fulfiller = {"address"}
            /\ json.listing.hash = ExpectedHex(r.listing.hash)
            /\ json.listing.chain = ChainName(r.listing.chain)
            /\ json.listing.protocol_address \in
                 {ExpectedProtocolAddress(v) : v \in ProtocolVersions}
            /\ json.fulfiller.address = ExpectedHex(r.fulfiller.address)

C14_Witness ==
    /\ Ran("FulfillListingRequest::serialize")
    /\ codec.vals[2].t[1] =
         [listing   |-> [hash |-> "0x541a9eb3962494caffeda36a495cc978c7ecc21c6b714aaabc678187d3da9ac7",
                         chain |-> "ethereum",
                         protocol_address |-> "0x00000000000000ADc04C56Bf30aC9d3c0aAF14dC"],
          fulfiller |-> [address |-> "0xbc4ca0eda7647a8ab7c2061c2e118a18a936f13d"]]

\* C15: each of the four protocol revisions serialises to its fixed
\* address, serialisation never fails, and two different revisions never
\* serialise to the same address.
C15_ProtocolAddresses ==
    Ran("FulfillListingRequest::serialize") =>
        /\ codec.vals[2].k = "object"
        /\ codec.vals[2].t[1].listing.protocol_address =
             ExpectedProtocolAddress(codec.vals[1].t[1].listing.protocol_version)
        /\ \A v, w \in ProtocolVersions :
             v # w => protocol_version_to_str(v) # protocol_version_to_str(w)

C15_Witness ==
    /\ Ran("FulfillListingRequest::serialize")
    /\ codec.vals[1].t[1].listing.protocol_version = "V1_6"
    /\ codec.vals[2].t[1].listing.protocol_address =
         "0x0000000000000068f116a894984e2db1123eb395"

DecimalChars == {"0", "1", "2", "3", "4", "5", "6", "7", "8", "9"}

\* The text is one decimal digit or more and nothing else.
IsDecimalText(t) == Len(t) >= 1 /\ \A i \in 1..Len(t) : t[i] \in DecimalChars

\* The text is the literal of an unsigned integer: decimal digits with no
\* leading zero.
IsUnsignedLiteral(t) == IsDecimalText(t) /\ (Len(t) = 1 \/ t[1] # "0")

DigitOf(c) == CHOOSE d \in 0..9 : DecDigits[d + 1] = c

\* a <= b for two literals of unsigned integers.
DecLeq(a, b) ==
    \/ Len(a) < Len(b)
    \/ /\ Len(a) = Len(b)
       /\ \/ a = b
          \/ \E i \in 1..Len(a) :
               /\ \A j \in 1..(i - 1) : a[j] = b[j]
               /\ DigitOf(a[i]) < DigitOf(b[i])

\* C16: for every 256-bit unsigned value v, u256_from_dec_str decodes the
\* string u256_to_dec_str encodes v as back to v, and that string consists
\* of ASCII decimal digits only.
C16_DecimalStringRoundTrip ==
    /\ Ran("u256_to_dec_str") =>
         codec.vals[2].k = "string" /\ IsDecimalText(codec.vals[2].t)
    /\ RanThen("u256_to_dec_str", "u256_from_dec_str") => codec.vals[3] = codec.vals[1]

C16_Witness ==
    /\ RanThen("u256_to_dec_str", "u256_from_dec_str")
    /\ codec.vals[1] = U256(Ones(U256_LIMBS))
    /\ codec.vals[2] = JsonString(DEC_U256_MAX)
    /\ codec.vals[3] = codec.vals[1]

\* C17: the decimal-string U256 decoder fails, and gives no value, for
\* every string that has a character other than an ASCII decimal digit (a
\* sign and a 0x prefix among them), for every negative value and for every
\* decimal value above 2^256 - 1.
C17_NonDecimalStringFails ==
    (/\ Ran("u256_from_dec_str")
     /\ codec.vals[1].k = "string"
     /\ \/ \E i \in 1..Len(codec.vals[1].t) : codec.vals[1].t[i] \notin DecimalChars
        \/ /\ IsDecimalText(codec.vals[1].t)
           /\ ~DecLeq(StripZeros(codec.vals[1].t), DEC_U256_MAX))
    => codec.vals[2].k = "Err"

\* C18: u256_to_dec emits the JSON number equal to the value for every
\* value up to 2^128 - 1, and fails with the value-too-large error,
\* emitting nothing, for every value from 2^128 on.
C18_ValueAsNumber ==
    Ran("u256_to_dec") =>
        LET decimal == to_string(codec.vals[1].n)
        IN  IF DecLeq(decimal, DEC_U128_MAX)
            THEN codec.vals[2] = JsonNumber(decimal)
            ELSE codec.vals[2] = CodecErr("U256 value is too large for u128")

C18_Witness ==
    /\ Ran("u256_to_dec")
    /\ codec.vals[1] = U256(Bit(U128_BITS))
    /\ codec.vals[2].k = "Err"

\* The run decodes, with fn, the literal of an unsigned integer up to
\* 2^256 - 1 that came as a JSON value of the kind.
DecodesLiteral(fn, kind) ==
    /\ Ran(fn)
    /\ codec.vals[1].k = kind
    /\ IsUnsignedLiteral(codec.vals[1].t)
    /\ DecLeq(codec.vals[1].t, DEC_U256_MAX)

\* The run decoded its input to the value the literal writes.
DecodedLiteral ==
    /\ codec.vals[2].k = "U256"
    /\ to_string(codec.vals[2].n) = codec.vals[1].t

\* C19: every 256-bit integer field (transaction.value and the U256
\* fields of the fulfillment parameters) accepts both a JSON number n and
\* the JSON decimal string of n, and decodes both to the same value.
C19_NumberAndStringAccepted ==
    \A fn \in {"u256_from_dec", "u256_from_dec_str"}, kind \in {"number", "string"} :
        DecodesLiteral(fn, kind) => DecodedLiteral

\* C19 as the code has it: transaction.value accepts a JSON number n and
\* no string, a U256 field of the fulfillment parameters accepts the JSON
\* decimal string of n and no number, and the two decode n to the same
\* value.
C19_OneShapePerField ==
    /\ DecodesLiteral("u256_from_dec", "number") =>
         /\ DecodedLiteral
         /\ codec.vals[2] = u256_from_dec_str(JsonString(codec.vals[1].t))
    /\ DecodesLiteral("u256_from_dec_str", "string") =>
         /\ DecodedLiteral
         /\ codec.vals[2] = u256_from_dec(JsonNumber(codec.vals[1].t))
    /\ DecodesLiteral("u256_from_dec", "string") => codec.vals[2].k = "Err"
    /\ DecodesLiteral("u256_from_dec_str", "number") => codec.vals[2].k = "Err"

C19_Witness ==
    /\ DecodesLiteral("u256_from_dec", "number")
    /\ codec.vals[1].t = DEC_FIXTURE_VALUE
    /\ DecodedLiteral

\* Counter decoded the run's input, a JSON number that is the literal of
\* an unsigned integer, to Number of that integer.
NumberDecoded ==
    /\ codec.vals[2].k = "Counter::Number"
    /\ to_string(codec.vals[2].n) = codec.vals[1].t

\* C20: Counter decodes every JSON unsigned integer n to Number(n) and
\* every JSON string s to Text(s), and serialising again gives the JSON
\* scalar back: encode(decode(j)) = j for both kinds.
C20_EveryUnsignedInteger ==
    /\ (/\ Ran("Counter::deserialize")
        /\ codec.vals[1].k = "number"
        /\ IsUnsignedLiteral(codec.vals[1].t))
       => NumberDecoded
    /\ (Ran("Counter::deserialize") /\ codec.vals[1].k = "string")
       => codec.vals[2] = CounterText(codec.vals[1].t)
    /\ RanThen("Counter::deserialize", "Counter::serialize") => codec.vals[3] = codec.vals[1]

\* C20 as the code has it: the unsigned integers Counter decodes to
\* Number(n) are those up to 2^64 - 1.
C20_UnsignedIntegerOfU64 ==
    /\ (/\ Ran("Counter::deserialize")
        /\ codec.vals[1].k = "number"
        /\ IsUnsignedLiteral(codec.vals[1].t)
        /\ DecLeq(codec.vals[1].t, DEC_U64_MAX))
       => NumberDecoded
    /\ (Ran("Counter::deserialize") /\ codec.vals[1].k = "string")
       => codec.vals[2] = CounterText(codec.vals[1].t)
    /\ RanThen("Counter::deserialize", "Counter::serialize") => codec.vals[3] = codec.vals[1]

C20_Witness ==
    /\ RanThen("Counter::deserialize", "Counter::serialize")
    /\ codec.vals[1] = JsonNumber(DEC_U64_MAX)
    /\ codec.vals[2].k = "Counter::Number"
    /\ codec.vals[3] = codec.vals[1]

\* The run decodes, with fn, a JSON number that is the literal of an
\* unsigned integer.
DecodesUnsigned(fn) ==
    /\ Ran(fn)
    /\ codec.vals[1].k = "number"
    /\ IsUnsignedLiteral(codec.vals[1].t)

\* C21: UserId decodes a JSON unsigned integer n and the JSON string of
\* the decimal digits of n to the same value, the string of those digits;
\* every JSON string is kept verbatim.
C21_EveryUnsignedIntegerId ==
    /\ DecodesUnsigned("UserId::deserialize") =>
         /\ codec.vals[2] = UserId(codec.vals[1].t)
         /\ codec.vals[2] = UserId_deserialize(JsonString(codec.vals[1].t))
    /\ (Ran("UserId::deserialize") /\ codec.vals[1].k = "string")
       => codec.vals[2] = UserId(codec.vals[1].t)

\* C21 as the code has it: the unsigned integers UserId decodes are those
\* up to 2^64 - 1.
C21_UnsignedIntegerIdOfU64 ==
    /\ (DecodesUnsigned("UserId::deserialize") /\ DecLeq(codec.vals[1].t, DEC_U64_MAX)) =>
         /\ codec.vals[2] = UserId(codec.vals[1].t)
         /\ codec.vals[2] = UserId_deserialize(JsonString(codec.vals[1].t))
    /\ (Ran("UserId::deserialize") /\ codec.vals[1].k = "string")
       => codec.vals[2] = UserId(codec.vals[1].t)

C21_Witness ==
    /\ Ran("UserId::deserialize")
    /\ codec.vals[1] = JsonNumber(DEC_FIXTURE_USER)
    /\ codec.vals[2] = UserId(DEC_FIXTURE_USER)

\* C22: Currency decodes the JSON string "ETH" to Eth and every other
\* non-empty string s to Other(s), s kept verbatim; for every wire string
\* w, encoding the decoded value gives w back.
C22_CurrencyOfWireString ==
    /\ (Ran("Currency::deserialize") /\ codec.vals[1].k = "string") =>
         IF codec.vals[1].t = <<"E", "T", "H">>
         THEN codec.vals[2].k = "Currency::Eth"
         ELSE codec.vals[1].t # <<>> =>
                /\ codec.vals[2].k = "Currency::Other"
                /\ codec.vals[2].t = codec.vals[1].t
    /\ (RanThen("Currency::deserialize", "Currency::serialize")
        /\ codec.vals[1].k = "string")
       => codec.vals[3] = codec.vals[1]

C22_Witness ==
    /\ RanThen("Currency::deserialize", "Currency::serialize")
    /\ codec.vals[1] = JsonString(<<"U", "S", "D">>)
    /\ codec.vals[2] = CurrencyOther(<<"U", "S", "D">>)
    /\ codec.vals[3] = codec.vals[1]

\* The decoder returned a SeaportOrderParameters.
DecodedParameters ==
    /\ Ran("SeaportOrderParameters::deserialize")
    /\ codec.vals[2].k = "SeaportOrderParameters"

\* The number n < 2^16 as a u64.
CountAsU64(n) == Val("u64", <<>>, [i \in 1..U64_LIMBS |-> IF i = 1 THEN n ELSE 0])

\* C23: for every SeaportOrderParameters P the decoder returns,
\* total_original_consideration_items of P is the number of elements of
\* P.consideration.
C23_TotalIsLength ==
    DecodedParameters =>
        codec.vals[2].t[1].total_original_consideration_items
            = CountAsU64(Len(codec.vals[2].t[1].consideration))

\* C23 as the code has it: the decoder checks nothing of the two fields and
\* returns each as the object has it, so they agree in P where they agree
\* in the object P is decoded from.
C23_TotalAsInObject ==
    DecodedParameters =>
        LET object == codec.vals[1].t[1]
            P      == codec.vals[2].t[1]
        IN  /\ P.consideration = object.consideration
            /\ to_string(P.total_original_consideration_items.n)
                 = object.totalOriginalConsiderationItems.t
            /\ object.totalOriginalConsiderationItems
                 = JsonNumber(<<DecDigits[Len(object.consideration) + 1]>>)
               => P.total_original_consideration_items
                    = CountAsU64(Len(P.consideration))

C23_Witness ==
    /\ DecodedParameters
    /\ Len(codec.vals[2].t[1].consideration) = 2
    /\ codec.vals[2].t[1].total_original_consideration_items = CountAsU64(2)

\* The member an alias stands for.
AliasOf ==
    [name \in {"mainnet", "polygon", "fuji"} |->
        CASE name = "mainnet" -> "Ethereum"
          [] name = "polygon" -> "Matic"
          [] name = "fuji"    -> "AvalancheFuji"]

\* C24: parsing the emitted name of a Chain member gives the member; the
\* aliases mainnet, polygon and fuji parse to Ethereum, Matic and
\* AvalancheFuji, which are emitted as ethereum, matic and avalanche_fuji
\* always; parsing a name that is neither a canonical name nor one of the
\* aliases fails.
C24_ChainNames ==
    /\ RanThen("Chain::to_string", "Chain::from_str") => codec.vals[3] = codec.vals[1]
    /\ Ran("Chain::from_str") =>
         LET name == codec.vals[1].t[1]
         IN  CASE name \in DOMAIN AliasOf -> codec.vals[2] = ChainVal(AliasOf[name])
               [] name \in {ChainName(chain) : chain \in Chains} ->
                    /\ codec.vals[2].k = "Chain"
                    /\ ChainName(codec.vals[2].t[1]) = name
               [] OTHER -> codec.vals[2].k = "Err"
    /\ Ran("Chain::to_string") =>
         /\ codec.vals[1] = ChainVal("Ethereum") => codec.vals[2] = WireName("ethereum")
         /\ codec.vals[1] = ChainVal("Matic") => codec.vals[2] = WireName("matic")
         /\ codec.vals[1] = ChainVal("AvalancheFuji")
            => codec.vals[2] = WireName("avalanche_fuji")
    /\ (RanThen("Chain::from_str", "Chain::to_string")
        /\ codec.vals[1].t[1] \in DOMAIN AliasOf)
       => codec.vals[3] = WireName(ChainName(AliasOf[codec.vals[1].t[1]]))

C24_Witness ==
    /\ RanThen("Chain::from_str", "Chain::to_string")
    /\ codec.vals[1] = WireName("polygon")
    /\ codec.vals[2] = ChainVal("Matic")
    /\ codec.vals[3] = WireName("matic")

\* The days from 1970-01-01 to a date of the proleptic Gregorian calendar.
DaysFromCivil(year, month, day) ==
    LET y   == IF month <= 2 THEN year - 1 ELSE year
        era == y \div 400
        yoe == y - era * 400
        doy == (153 * (IF month > 2 THEN month - 3 ELSE month + 9) + 2) \div 5 + day - 1
        doe == yoe * 365 + yoe \div 4 - yoe \div 100 + doy
    IN  era * 146097 + doe - 719468

\* The instant of a civil UTC datetime of the years 1970 to 2037, as
\* DateTime::parse_from_rfc3339 gives it (client.rs:142).
CivilUtc(year, month, day, hour, minute, second) ==
    LET secs == DaysFromCivil(year, month, day) * 86400
                + hour * 3600 + minute * 60 + second
    IN  Val("DateTime", <<"+">>,
            [i \in 1..U64_LIMBS |->
                CASE i = 1 -> secs % LimbBase
                  [] i = 2 -> secs \div LimbBase
                  [] OTHER -> 0])

\* The run decodes a timestamp from a JSON value of the kind that holds the
\* literal of an unsigned integer.
DecodesSeconds(kind) ==
    /\ Ran("TimestampSeconds::deserialize_as")
    /\ codec.vals[1].k = kind
    /\ IsUnsignedLiteral(codec.vals[1].t)

\* The run decoded its input to the instant that many seconds after the
\* epoch.
DecodedSeconds ==
    /\ codec.vals[2].k = "DateTime"
    /\ codec.vals[2].t = <<"+">>
    /\ to_string(codec.vals[2].n) = codec.vals[1].t

ReEncoded(decoder, encoder) ==
    /\ RanThen(decoder, encoder)
    /\ codec.vals[1].k \in {"number", "string"}

\* C26: encoding never coerces a polymorphic field (user id, counter,
\* currency) across JSON kinds: a value decoded from a JSON number is
\* written as a JSON number, one decoded from a JSON string as a JSON
\* string.
C26_KindKept ==
    /\ ReEncoded("UserId::deserialize", "UserId::serialize")
       => codec.vals[3].k = codec.vals[1].k
    /\ ReEncoded("Counter::deserialize", "Counter::serialize")
       => codec.vals[3].k = codec.vals[1].k
    /\ ReEncoded("Currency::deserialize", "Currency::serialize")
       => codec.vals[3].k = codec.vals[1].k

\* C26 as the code has it: counter and currency keep their JSON kind; a
\* user id is written as a JSON string always, the string of its digits
\* where it was decoded from a JSON number.
C26_KindKeptButUserId ==
    /\ ReEncoded("UserId::deserialize", "UserId::serialize")
       => codec.vals[3] = JsonString(codec.vals[1].t)
    /\ ReEncoded("Counter::deserialize", "Counter::serialize")
       => codec.vals[3].k = codec.vals[1].k
    /\ ReEncoded("Currency::deserialize", "Currency::serialize")
       => codec.vals[3].k = codec.vals[1].k

C26_Witness ==
    /\ ReEncoded("UserId::deserialize", "UserId::serialize")
    /\ codec.vals[1] = JsonNumber(DEC_FIXTURE_USER)
    /\ codec.vals[3] = JsonString(DEC_FIXTURE_USER)

\* C27: in every run of an operation the steps come in the order send
\* request, read response body, decode, each at most once; when sending
\* fails with a transport error the operation ends with that error and
\* neither reads a body nor decodes anything.
C27_SendReadDecode ==
    [][\A c \in Callers :
        \* a request is sent by a call that starts, and by no other step
        /\ (pc'[c] = "sending" /\ pc[c] # "sending") => CanCall(c) /\ sent'[c] = 1
        /\ (pc'[c] = "sending" /\ pc[c] = "sending")
           => sent'[c] = sent[c] /\ req'[c] = req[c]
        /\ sent'[c] # sent[c] => CanCall(c)
        \* the body is waited for once the request is sent, and once only
        /\ (pc'[c] = "reading" /\ pc[c] # "reading") => pc[c] = "sending"
        \* a body is read by the step that ends the wait for it
        /\ (resp'[c].got \in {"body", "body_error"} /\ resp'[c] # resp[c])
           => pc[c] = "reading" /\ pc'[c] = "done"
        \* nothing is decoded or returned before that step, but for a call
        \* that ends without a response
        /\ (result'[c] # result[c] /\ result'[c] # Pending)
           => /\ pc'[c] = "done"
              /\ \/ pc[c] = "reading" /\ resp'[c].got \in {"body", "body_error"}
                 \/ /\ pc[c] = "sending"
                    /\ result'[c] = ErrReqwest("request")
                    /\ resp'[c].got = "error"
                    /\ resp'[c].body = NoBody
                 \/ CanCall(c) /\ sent'[c] = 0
        \* a failed send ends the call with the transport error
        /\ (pc[c] = "sending" /\ resp'[c].got = "error")
           => /\ pc'[c] = "done"
              /\ result'[c] = ErrReqwest("request")
              /\ resp'[c].body = NoBody
        \* a call that has ended does nothing more: the next step of its
        \* caller is a new call
        /\ (pc[c] = "done" /\ pc'[c] # "done") => pc'[c] = "sending"
    ]_vars

\* C27 witness: fulfill_listing ended by a transport error, with no body
\* read and nothing decoded.
C27_Witness ==
    \E c \in Callers :
        /\ pc[c] = "done"
        /\ op[c] = "fulfill_listing"
        /\ sent[c] = 1
        /\ resp[c].got = "error"
        /\ resp[c].body = NoBody
        /\ result[c] = ErrReqwest("request")

\* The value is one value_to_string takes: a number, a boolean or a string.
IsScalar(v) == v.k \in {"num", "bool", "str"}

\* C28: to_qs_vec returns Ok for every RetrieveListingsRequest: no field
\* is serialised as null, as an object or as an array within an array, so
\* value_to_string never gives its wrong-value-type error and
\* retrieve_listings never fails before it sends.
C28_QueryNeverFails ==
    Ran("to_qs_vec") =>
        LET map == to_map(codec.vals[1].t[1])
        IN  /\ codec.vals[2].k = "qs"
            /\ \A i \in 1..Len(map) :
                 \/ IsScalar(map[i][2])
                 \/ /\ map[i][2].k = "arr"
                    /\ \A j \in 1..Len(map[i][2].a) : IsScalar(map[i][2].a[j])

\* C28 witness: the request with no field set gives the empty list.
C28_Witness ==
    /\ Ran("to_qs_vec")
    /\ codec.vals[1].t[1] = DefaultRetrieveListingsRequest
    /\ codec.vals[2] = Val("qs", <<>>, <<>>)

\* fulfill_listing returned on a 400 whose body was read and is no error
\* envelope.
FulfillNoEnvelope(c) ==
    /\ ReturnedWithBody(c)
    /\ op[c] = "fulfill_listing"
    /\ resp[c].status = 400
    /\ ~IsEnvelope(resp[c].body)

\* C29: in fulfill_listing, a 400 whose body cannot be parsed as an error
\* envelope (no errors array of strings) gives the decoding error of the
\* HTTP layer, never a known-tag or generic server error, and the body is
\* never decoded as a success response.
C29_BadEnvelopeIsDecodeError ==
    \A c \in Callers :
        FulfillNoEnvelope(c) =>
            /\ result[c] = ErrReqwest("decode")
            /\ result[c].tag \notin {"OpenSeaDetailedError", "OpenSeaError", "Ok"}

\* C29 witness: a 400 that carries a whole FulfillListingResponse is a
\* decoding error.
C29_Witness ==
    \E c \in Callers :
        /\ FulfillNoEnvelope(c)
        /\ resp[c].body = Complete("FulfillListingResponse")
        /\ result[c] = ErrReqwest("decode")

\* C30: Currency matching is exact and first-match: decode(encode(c)) = c
\* for every Currency c but Other("ETH"), which is encoded as the same JSON
\* string as Eth and decoded back as Eth; a string that differs from "ETH"
\* in case only, such as "eth", decodes to Other.
C30_CurrencyExactFirstMatch ==
    /\ RanThen("Currency::serialize", "Currency::deserialize") =>
         IF codec.vals[1] = CurrencyOther(<<"E", "T", "H">>)
         THEN /\ codec.vals[2] = Currency_serialize(CurrencyEth)
              /\ codec.vals[3] = CurrencyEth
         ELSE codec.vals[3] = codec.vals[1]
    /\ (Ran("Currency::deserialize")
        /\ codec.vals[1] \in {JsonString(<<"e", "t", "h">>), JsonString(<<"E", "t", "h">>)})
       => codec.vals[2] = CurrencyOther(codec.vals[1].t)

C30_Witness ==
    /\ RanThen("Currency::serialize", "Currency::deserialize")
    /\ codec.vals[1] = CurrencyOther(<<"E", "T", "H">>)
    /\ codec.vals[2] = JsonString(<<"E", "T", "H">>)
    /\ codec.vals[3] = CurrencyEth

====
